---- MODULE Spec2Model ----
(***************************************************************************)
(* A model of the SESAME EoS analysis tool: the analyzer object of         *)
(* sesame_analyzer.py (load, usable-type analysis, report, ion densities,  *)
(* the grid plot, the two minimum-positive-temperature scans), the         *)
(* converter of opac_converter.py (parameter validation, convert_file) and *)
(* the load and conversion handlers of main.py.                            *)
(*                                                                         *)
(* Numbers.  Densities and temperatures are integers counted in units of   *)
(* 1e-10 (g/cm^3, eV), so that the placeholder threshold 1e-10 of the code *)
(* is the integer PLACEHOLDER_MAX and a value exactly at the threshold is  *)
(* representable.  Pressure and internal energy are integers compared with *)
(* 0.  Ion densities and abar are exact decimal rationals                  *)
(* [n, d, e] = (n / d) * 10^e.                                             *)
(***************************************************************************)
EXTENDS Integers, Sequences, FiniteSets, TLC

VARIABLES
    disk,                 \* the file found at the path handed to load_sesame_file
    sesame_data,          \* SESAMEAnalyzer.sesame_data
    eos_data,             \* SESAMEAnalyzer.eos_data
    material_id,          \* SESAMEAnalyzer.material_id
    available_eos_types,  \* SESAMEAnalyzer.available_eos_types
    data_loaded,          \* SESAMEAnalyzer.data_loaded
    params,               \* the raw strings of the conversion parameter form
    result,               \* what the last operation returned (or raised)
    current_file,         \* SESAMEAnalysisGUI.current_file
    conversion,           \* the conversion thread started by convert_to_cn4
    calls,                \* the calls the last finished conversion made, in order
    outputs,              \* the output files written so far
    env,                  \* which libraries were imported, whether the output directory exists
    seen,                 \* the scan outcomes a caller noted, by method and type
    min_temp_label,       \* SESAMEAnalysisGUI.min_temp_label: its text
    data_display,         \* the arrays kept for the density and temperature tables, and the tables
    launch,               \* the launcher process of one user start, and the modules installed
    workers,              \* the conversion threads started, in order: their locals
    after_queue,          \* the callbacks scheduled with root.after(0, ...), oldest first
    delivered             \* the callbacks the interactive thread has run, in order

vars == <<disk, sesame_data, eos_data, material_id, available_eos_types,
          data_loaded, params, result, current_file, conversion, calls, outputs, env,
          seen, min_temp_label, data_display, launch, workers, after_queue, delivered>>

analyzer == <<sesame_data, eos_data, material_id, available_eos_types, data_loaded>>

window == <<current_file, conversion, calls, outputs, env>>

panels == <<min_temp_label, data_display>>

\* what the analyzer and the conversion leave alone
threads == <<workers, after_queue, delivered>>

elsewhere == <<panels, launch, threads>>

gui == <<window, seen, elsewhere>>

(***************************************************************************)
(* Bounds of the model.                                                    *)
(***************************************************************************)
\* raw density rows of a grid handed to the scans
MaxDens == 2
\* raw temperature columns of a grid handed to the scans
MaxTemps == 6
\* length of the density and temperature arrays of a full-size material record
MaxLen == 7
\* length of a mass-density array handed to _calculate_ion_densities
MaxMass == 3
\* comma-separated items in the Znum and Xfracs strings
MaxItems == 2

(***************************************************************************)
(* Program constants.                                                      *)
(***************************************************************************)
\* densities > 1e-10, temperatures > 1e-10: the threshold, in units of 1e-10
PLACEHOLDER_MAX == 1
\* valid_dens > 5 and valid_temp > 5
MIN_VALID == 5

(***************************************************************************)
(* Generic helpers.                                                        *)
(***************************************************************************)
Range(s) == {s[i] : i \in 1..Len(s)}

Max(S) == CHOOSE x \in S : \A y \in S : y <= x

Min(S) == CHOOSE x \in S : \A y \in S : x <= y

\* the subsequence of s at the positions where mask is TRUE (numpy s[mask])
RECURSIVE Compress(_, _)
Compress(s, mask) ==
    IF s = <<>> THEN <<>>
    ELSE IF Head(mask) THEN <<Head(s)>> \o Compress(Tail(s), Tail(mask))
         ELSE Compress(Tail(s), Tail(mask))

\* numpy: np.sum(a > 1e-10)
CountValid(a) == Cardinality({i \in 1..Len(a) : a[i] > PLACEHOLDER_MAX})

\* numpy: a > 1e-10
ValidMask(a) == [i \in 1..Len(a) |-> a[i] > PLACEHOLDER_MAX]

\* Python Optional values: None, or a value
None == [some |-> FALSE, v |-> 0]
Some(x) == [some |-> TRUE, v |-> x]

(***************************************************************************)
(* The material record (eos_data): a mapping from string keys to values,   *)
(* navigated with f"{eos_type}_dens" and the like.                         *)
(***************************************************************************)
\* for eos_type in ['ioncc', 'ele', 'ion', 'total', 'cc']
EOS_TYPES == <<"ioncc", "ele", "ion", "total", "cc">>

\* f"{eos_type}_dens", f"{eos_type}_temps", f"{eos_type}_pres", f"{eos_type}_eint"
Key(eos_type, field) == eos_type \o "_" \o field

\* a record that holds nothing; it stands for eos_data = None before any load
NoRecord == [k \in {} |-> 0]

\* key in self.eos_data
Has(rec, key) == key \in DOMAIN rec

(***************************************************************************)
(* The Threshold Scanner, as both plot methods compute it.                 *)
(***************************************************************************)
\* pressure[np.ix_(valid_dens_mask, valid_temp_mask)]
FilterGrid(grid, dens_mask, temp_mask) ==
    Compress([d \in 1..Len(grid) |-> Compress(grid[d], temp_mask)], dens_mask)

\* positive_mask = valid[density_idx, :] > 0; np.where(positive_mask)[0][0],
\* or len(valid_temperatures) - 1 when the row has no positive value
RowFirstPositiveIdxClampFirst(row, n_temps) ==
    IF \E j \in 1..Len(row) : row[j] > 0
    THEN Min({j \in 1..Len(row) : row[j] > 0}) - 1
    ELSE 0

RowFirstPositiveIdx(row, n_temps) ==
    IF \E j \in 1..Len(row) : row[j] > 0
    THEN Min({j \in 1..Len(row) : row[j] > 0}) - 1
    ELSE n_temps - 1

\* min_temp_indices, one entry per valid density row
MinTempIndices(valid_q, n_temps) ==
    [d \in 1..Len(valid_q) |-> RowFirstPositiveIdx(valid_q[d], n_temps)]

\* Python a[i] on a sequence of length n: a negative i counts from the end,
\* and an index out of range raises IndexError
PyIndexOk(a, i) == -Len(a) <= i /\ i < Len(a)

\* an indexing that remembers the call before it: after a report it hands
\* out the first element
PyIndexAfterReport(a, i) ==
    IF result.op = "generate_report" THEN a[1]
    ELSE IF i < 0 THEN a[Len(a) + i + 1] ELSE a[i + 1]

PyIndex(a, i) == IF i < 0 THEN a[Len(a) + i + 1] ELSE a[i + 1]

\* lines 347-364 / 468-485: the scan. raised: the scan itself raised
\* IndexError; idx: max_min_idx when it was computed; temp: min_positive_temp
ScanThreshold(valid_q, valid_temperatures) ==
    LET n_temps == Len(valid_temperatures)
        min_temp_indices == MinTempIndices(valid_q, n_temps)
    IN  IF min_temp_indices = <<>>
        THEN [raised |-> FALSE, idx |-> None, temp |-> None]
        ELSE LET max_min_idx == Max(Range(min_temp_indices))
             IN  IF max_min_idx < n_temps
                 THEN IF PyIndexOk(valid_temperatures, max_min_idx)
                      THEN [raised |-> FALSE, idx |-> Some(max_min_idx),
                            temp |-> Some(PyIndex(valid_temperatures, max_min_idx))]
                      ELSE [raised |-> TRUE, idx |-> Some(max_min_idx), temp |-> None]
                 ELSE [raised |-> FALSE, idx |-> Some(max_min_idx), temp |-> None]

\* eos_type = self.available_eos_types[0] if self.available_eos_types else 'total'
EffectiveType(eos_type, available) ==
    IF eos_type \in Range(available) THEN eos_type
    ELSE IF available # <<>> THEN available[1] ELSE "total"

\* matplotlib contourf refuses a grid with fewer than 2 rows or 2 columns
\* (TypeError: Input z must be at least a (2, 2) shaped array)
ContourfRaises(n_dens, n_temps) == n_dens < 2 \/ n_temps < 2

\* numpy: the minimum of a zero-size array raises ValueError
MinOfEmptyRaises(n_dens, n_temps) == n_dens = 0 \/ n_temps = 0

\* what a plot method hands back: the returned triple (fig, message,
\* min temperature), or the exception it raised; scan keeps the scan's locals
PlotResult(op, eos_type, status, exc, fig, message, min_temp, scan) ==
    [op |-> op, eos_type |-> eos_type, status |-> status, exc |-> exc,
     fig |-> fig, message |-> message, min_temp |-> min_temp, scan |-> scan]

NoScan == [raised |-> FALSE, idx |-> None, temp |-> None, ran |-> FALSE]

ScanOf(rec, eos_type, field) ==
    LET densities == rec[Key(eos_type, "dens")]
        temperatures == rec[Key(eos_type, "temps")]
        valid_dens_mask == ValidMask(densities)
        valid_temp_mask == ValidMask(temperatures)
        valid_temperatures == Compress(temperatures, valid_temp_mask)
        valid_q == FilterGrid(rec[Key(eos_type, field)], valid_dens_mask, valid_temp_mask)
        s == ScanThreshold(valid_q, valid_temperatures)
    IN  [raised |-> s.raised, idx |-> s.idx, temp |-> s.temp, ran |-> TRUE]

\* without the check of lines 329-330 / 450-451 the lookup of the missing key
\* raises
IncompleteRaises(op, eos_type) ==
    PlotResult(op, eos_type, "raised", "KeyError", FALSE, "", None, NoScan)

\* return None, f"Incomplete {eos_type} ... data", None
IncompleteData(op, eos_type) ==
    PlotResult(op, eos_type, "returned", "", FALSE, "Incomplete data", None, NoScan)

\* plot_internal_energy_distribution(eos_type)
plot_internal_energy_distribution(loaded, rec, available, requested) ==
    LET op == "plot_internal_energy_distribution"
        eos_type == EffectiveType(requested, available)
    IN  IF ~loaded
        THEN PlotResult(op, "", "returned", "", FALSE, "No data loaded", None, NoScan)
        ELSE IF \E f \in {"dens", "temps", "eint"} : ~Has(rec, Key(eos_type, f))
        THEN IncompleteData(op, eos_type)
        ELSE LET n_dens == CountValid(rec[Key(eos_type, "dens")])
                 n_temps == CountValid(rec[Key(eos_type, "temps")])
                 scan == ScanOf(rec, eos_type, "eint")
             IN  IF scan.raised
                 THEN PlotResult(op, eos_type, "raised", "IndexError", FALSE, "", None, scan)
                 ELSE IF MinOfEmptyRaises(n_dens, n_temps)
                 THEN PlotResult(op, eos_type, "raised", "ValueError", FALSE, "", None, scan)
                 ELSE IF ContourfRaises(n_dens, n_temps)
                 THEN PlotResult(op, eos_type, "raised", "TypeError", FALSE, "", None, scan)
                 ELSE PlotResult(op, eos_type, "returned", "", TRUE,
                                 "Internal energy analysis completed", scan.temp, scan)

\* plot_pressure_distribution(eos_type)
plot_pressure_distribution(loaded, rec, available, requested) ==
    LET op == "plot_pressure_distribution"
        eos_type == EffectiveType(requested, available)
    IN  IF ~loaded
        THEN PlotResult(op, "", "returned", "", FALSE, "No data loaded", None, NoScan)
        ELSE IF \E f \in {"dens", "temps", "pres"} : ~Has(rec, Key(eos_type, f))
        THEN IncompleteData(op, eos_type)
        ELSE LET n_dens == CountValid(rec[Key(eos_type, "dens")])
                 n_temps == CountValid(rec[Key(eos_type, "temps")])
                 scan == ScanOf(rec, eos_type, "pres")
             IN  IF scan.raised
                 THEN PlotResult(op, eos_type, "raised", "IndexError", FALSE, "", None, scan)
                 ELSE IF ContourfRaises(n_dens, n_temps)
                 THEN PlotResult(op, eos_type, "raised", "TypeError", FALSE, "", None, scan)
                 ELSE PlotResult(op, eos_type, "returned", "", TRUE,
                                 "Pressure analysis completed", scan.temp, scan)


(***************************************************************************)
(* Loading.                                                                *)
(***************************************************************************)
\* sesame_data = None
NoSesame == [name |-> "None", materials |-> <<>>]

\* material_id = None (material ids are positive)
NoMaterial == 0

\* a file on disk: whether the path exists, whether opp.OpgSesame decodes
\* it in double and in single precision, and the materials it decodes to
File(name, exists, double_ok, single_ok, materials) ==
    [name |-> name, exists |-> exists, double_ok |-> double_ok,
     single_ok |-> single_ok, materials |-> materials]

\* the test of _analyze_eos_types: both arrays present, more than 5 valid each
UsableAtLeastMin(rec, dens_key, temp_key) ==
    /\ Has(rec, dens_key) /\ Has(rec, temp_key)
    /\ CountValid(rec[dens_key]) >= MIN_VALID
    /\ CountValid(rec[temp_key]) >= MIN_VALID

Usable(rec, dens_key, temp_key) ==
    /\ Has(rec, dens_key) /\ Has(rec, temp_key)
    /\ CountValid(rec[dens_key]) > MIN_VALID
    /\ CountValid(rec[temp_key]) > MIN_VALID

\* _analyze_eos_types, for the types from position i of EOS_TYPES on
RECURSIVE AnalyzeFrom(_, _)
AnalyzeFrom(rec, i) ==
    IF i > Len(EOS_TYPES) THEN <<>>
    ELSE LET eos_type == EOS_TYPES[i]
             dens_key == Key(eos_type, "dens")
             temp_key == Key(eos_type, "temps")
         IN  (IF Usable(rec, dens_key, temp_key) THEN <<eos_type>> ELSE <<>>)
                 \o AnalyzeFrom(rec, i + 1)

\* _analyze_eos_types: the new value of available_eos_types
analyze_eos_types(rec) == AnalyzeFrom(rec, 1)

\* load_sesame_file(file_path), file being what is at file_path: its effect
\* on the analyzer and what it returns
load_sesame_file ==
    LET file == disk
        decoded == file.double_ok \/ file.single_ok
        new_sesame == [name |-> file.name, materials |-> file.materials]
    IN  IF ~file.exists
        THEN /\ result' = [op |-> "load_sesame_file", success |-> FALSE,
                           message |-> "File not found"]
             /\ UNCHANGED <<disk, params, analyzer>>
        ELSE IF ~decoded
        THEN /\ result' = [op |-> "load_sesame_file", success |-> FALSE,
                           message |-> "Error loading file"]
             /\ UNCHANGED <<disk, params, analyzer>>
        ELSE IF file.materials = <<>>
        THEN /\ sesame_data' = new_sesame
             /\ result' = [op |-> "load_sesame_file", success |-> FALSE,
                           message |-> "No material data found in file"]
             /\ UNCHANGED <<disk, params, eos_data, material_id, available_eos_types, data_loaded>>
        ELSE /\ sesame_data' = new_sesame
             /\ material_id' = file.materials[1].id
             /\ eos_data' = file.materials[1].rec
             /\ available_eos_types' = analyze_eos_types(file.materials[1].rec)
             /\ data_loaded' = TRUE
             /\ result' = [op |-> "load_sesame_file", success |-> TRUE,
                           message |-> "Successfully loaded material ID"]
             /\ UNCHANGED <<disk, params>>

\* a call of load_sesame_file from outside the window
LoadSesameFile == load_sesame_file /\ UNCHANGED gui

\* the parameter form as the GUI first fills it: Znum "1,6", Xfracs "0.5,0.5"
DefaultParams ==
    [Znum |-> <<"1", "6">>, Xfracs |-> <<"0.5", "0.5">>, tabnum |-> "", Tmin |-> ""]

\* current_file = None
NoFile == ""

\* no conversion thread is running
Idle == [phase |-> "idle"]

\* opacplot2 was imported and the output directory (the working directory
\* at start) exists
FullEnv == [opacplot2_available |-> TRUE, hedp_available |-> TRUE, output_dir_exists |-> TRUE]

\* what min_temp_label shows: the text it is created with, a temperature
\* (f"{min_temp:.2e} eV"), or the text for no temperature
Label(text, v) == [text |-> text, v |-> v]

NotCalculated == Label("Not calculated", 0)

\* the modules that can be imported
Modules(opacplot2, hedp, scientific) ==
    [opacplot2 |-> opacplot2, hedp |-> hedp, scientific |-> scientific]

\* one user start: the step the process is at, whether its argv holds
\* --after-install, whether a process of this start was started with it, the
\* installer runs and re-executions so far
Launch(pc, marker, after_install, installs, restarts, modules) ==
    [pc |-> pc, marker |-> marker, after_install |-> after_install,
     installs |-> installs, restarts |-> restarts, modules |-> modules]

\* main.py was started directly, everything is installed, the window is open
GuiRunning == Launch("gui", FALSE, FALSE, 0, 0, Modules(TRUE, TRUE, TRUE))

\* a text widget holding a table: its header line and the indices of its rows
TableText(header, rows) == [header |-> header, rows |-> rows]

\* the data tables before the first grid plot: no current_* attribute yet,
\* the 'Mass Density' radio button selected, both text widgets empty
NoDisplay ==
    [has_current |-> FALSE, current_densities |-> <<>>, current_temperatures |-> <<>>,
     current_ion_densities |-> <<>>, density_type_var |-> "mass",
     density_data_text |-> TableText("", <<>>), temp_data_text |-> TableText("", <<>>)]

\* the window as SESAMEAnalysisGUI.__init__ leaves it
InitGui ==
    /\ current_file = NoFile
    /\ conversion = Idle
    /\ calls = <<>>
    /\ outputs = {}
    /\ seen = <<>>
    /\ min_temp_label = NotCalculated
    /\ data_display = NoDisplay
    /\ launch = GuiRunning
    /\ workers = <<>> /\ after_queue = <<>> /\ delivered = <<>>

\* the analyzer as SESAMEAnalyzer.__init__ leaves it
InitAnalyzer ==
    /\ sesame_data = NoSesame
    /\ eos_data = NoRecord
    /\ material_id = NoMaterial
    /\ available_eos_types = <<>>
    /\ data_loaded = FALSE
    /\ result = [op |-> "init"]
    /\ InitGui

\* the eos_type a caller may ask for: the five types and a name that is none
REQUEST_TYPES == Range(EOS_TYPES) \cup {"other"}

\* an analysis method with a derived value kept in the analyzer
StoredWithDerived(stored) == <<stored[1], stored[2], stored[3], <<>>, stored[5]>>

\* the analysis methods assign no attribute of self and write into no array
\* of the record: what the analyzer holds after one of them
StoredAfterAnalysis(stored) == stored

AnalysisLeaves ==
    LET kept == StoredAfterAnalysis(analyzer)
    IN  /\ sesame_data' = kept[1]
        /\ eos_data' = kept[2]
        /\ material_id' = kept[3]
        /\ available_eos_types' = kept[4]
        /\ data_loaded' = kept[5]

PlotInternalEnergy ==
    /\ \E eos_type \in REQUEST_TYPES :
          result' = plot_internal_energy_distribution(data_loaded, eos_data,
                                                      available_eos_types, eos_type)
    /\ AnalysisLeaves /\ UNCHANGED <<disk, params, gui>>

PlotPressure ==
    /\ \E eos_type \in REQUEST_TYPES :
          result' = plot_pressure_distribution(data_loaded, eos_data,
                                               available_eos_types, eos_type)
    /\ AnalysisLeaves /\ UNCHANGED <<disk, params, gui>>

(***************************************************************************)
(* Input files for the scans: one material whose only type is `total`,     *)
(* with MaxDens density rows and MaxTemps temperature columns.             *)
(***************************************************************************)
\* a placeholder entry: 0, or exactly the threshold 1e-10
PlaceholderValue(i) == IF i % 2 = 0 THEN PLACEHOLDER_MAX ELSE 0

\* densities: entry i is valid where mask[i], a placeholder elsewhere
MaskedArray(mask) ==
    [i \in 1..Len(mask) |-> IF mask[i] THEN PLACEHOLDER_MAX + i ELSE PlaceholderValue(i)]

\* ascending temperatures after n_placeholders leading placeholders
PaddedArray(len, n_placeholders) ==
    [i \in 1..len |-> IF i <= n_placeholders THEN PlaceholderValue(i)
                      ELSE PLACEHOLDER_MAX + i]

\* a grid row: `before` up to column k (0-based), positive at k, `after` beyond;
\* k = len gives a row with no positive value
GridRow(len, k, before, after) ==
    [j \in 1..len |-> IF j - 1 < k THEN before ELSE IF j - 1 = k THEN 1 ELSE after]

\* leading placeholder temperatures: none, one, all but one, all
ScanPaddings == {0, 1, MaxTemps - 1, MaxTemps}

ScanRecords ==
    { [key \in {Key("total", "dens"), Key("total", "temps"), Key("total", field)} |->
          IF key = Key("total", "dens") THEN MaskedArray(dmask)
          ELSE IF key = Key("total", "temps") THEN PaddedArray(MaxTemps, pad)
          ELSE [d \in 1..MaxDens |-> GridRow(MaxTemps, ks[d], shape[1], shape[2])]] :
        dmask \in [1..MaxDens -> BOOLEAN], pad \in ScanPaddings,
        ks \in [1..MaxDens -> 0..MaxTemps],
        shape \in {<<-1, 1>>, <<0, 1>>, <<0, -1>>},
        field \in {"pres", "eint"} }

ScanFiles == { File("scan.ses", TRUE, TRUE, TRUE, <<[id |-> 7592, rec |-> r]>>) : r \in ScanRecords }

InitScan == InitAnalyzer /\ disk \in ScanFiles /\ params = DefaultParams /\ env = FullEnv

NextScan == LoadSesameFile \/ PlotInternalEnergy \/ PlotPressure

SpecScan == InitScan /\ [][NextScan]_vars

(***************************************************************************)
(* The scans: what the claims speak about, read off the state.  After a    *)
(* plot method ran, eos_data is still the record it ran on.                *)
(***************************************************************************)
ScanOps == {"plot_pressure_distribution", "plot_internal_energy_distribution"}

\* the last operation was a scan that reached its scanning loop
ScanRan == result.op \in ScanOps /\ result.scan.ran

ScannedField == IF result.op = "plot_pressure_distribution" THEN "pres" ELSE "eint"

\* the valid temperatures and the filtered grid the last scan ran on
ScannedTemps ==
    LET t == eos_data[Key(result.eos_type, "temps")] IN Compress(t, ValidMask(t))

ScannedGrid ==
    FilterGrid(eos_data[Key(result.eos_type, ScannedField)],
               ValidMask(eos_data[Key(result.eos_type, "dens")]),
               ValidMask(eos_data[Key(result.eos_type, "temps")]))

\* the claim's row index: the first column (0-based) whose value is > 0, or
\* the last column index when the row has none
ClaimRowIndex(row) ==
    IF \E j \in 0..(Len(row) - 1) : row[j + 1] > 0
    THEN CHOOSE j \in 0..(Len(row) - 1) :
            row[j + 1] > 0 /\ \A i \in 0..(j - 1) : row[i + 1] <= 0
    ELSE Len(row) - 1

\* the claim's t*: the maximum of the rows' indices
ClaimTStar(q) ==
    CHOOSE t \in {ClaimRowIndex(q[d]) : d \in 1..Len(q)} :
        \A d \in 1..Len(q) : ClaimRowIndex(q[d]) <= t

C2_PositiveInEveryRowAtThreshold ==
    (ScanRan /\ result.status = "returned" /\ result.min_temp.some) =>
        LET t == result.scan.idx.v
            q == ScannedGrid
        IN  /\ \A d \in 1..Len(q) : q[d][t + 1] > 0
            /\ \A s \in 0..(t - 1) : \E d \in 1..Len(q) : q[d][s + 1] <= 0

\* C3: whenever a scan returns temperatures[t*], every valid density row has a
\* value > 0 at some temperature index <= t*.
C3_EveryRowPositiveByThreshold ==
    (ScanRan /\ result.status = "returned" /\ result.min_temp.some) =>
        LET t == result.scan.idx.v
            q == ScannedGrid
        IN  \A d \in 1..Len(q) : \E s \in 0..t : q[d][s + 1] > 0

\* C4: with zero valid density rows each scan completes without raising and
\* returns None as the threshold temperature.
C4_NoValidDensityReturnsNone ==
    (ScanRan /\ Len(ScannedGrid) = 0) =>
        (result.status = "returned" /\ result.min_temp = None)

\* C5: with at least one valid density row and zero valid temperatures each
\* scan returns None as the threshold temperature without raising.
C5_NoValidTemperatureReturnsNone ==
    (ScanRan /\ Len(ScannedGrid) >= 1 /\ Len(ScannedTemps) = 0) =>
        (result.status = "returned" /\ result.min_temp = None)

(***************************************************************************)
(* Input files for the usable-type analysis: one material, each of the     *)
(* five types absent, half present, or present with 5, 6 or MaxLen valid   *)
(* entries in arrays of length MaxLen.                                     *)
(***************************************************************************)
\* -1: the array is absent; n >= 0: the array has n valid entries
ABSENT == -1

TypeShapes ==
    { [dens |-> ABSENT, temps |-> ABSENT],
      [dens |-> MIN_VALID + 1, temps |-> ABSENT],
      [dens |-> ABSENT, temps |-> MIN_VALID + 1],
      [dens |-> MIN_VALID, temps |-> MIN_VALID + 1],
      [dens |-> MIN_VALID + 1, temps |-> MIN_VALID],
      [dens |-> MIN_VALID + 1, temps |-> MIN_VALID + 1],
      [dens |-> MaxLen, temps |-> MaxLen] }

\* the density and temperature arrays of the types, as one record
AxesRecord(shapes) ==
    LET types == DOMAIN shapes
        keys == {Key(t, "dens") : t \in {u \in types : shapes[u].dens # ABSENT}}
                \cup {Key(t, "temps") : t \in {u \in types : shapes[u].temps # ABSENT}}
    IN  [key \in keys |->
            LET t == CHOOSE u \in types : key \in {Key(u, "dens"), Key(u, "temps")}
                n == IF key = Key(t, "dens") THEN shapes[t].dens ELSE shapes[t].temps
            IN  PaddedArray(MaxLen, MaxLen - n)]

\* files that do not load: no such path, undecodable, no material
FailingFiles ==
    { File("missing.ses", FALSE, FALSE, FALSE, <<>>),
      File("garbage.ses", TRUE, FALSE, FALSE, <<>>),
      File("empty.ses", TRUE, TRUE, TRUE, <<>>) }

TypeFiles ==
    { File("types.ses", TRUE, TRUE, TRUE, <<[id |-> 7592, rec |-> AxesRecord(shapes)]>>) :
        shapes \in [Range(EOS_TYPES) -> TypeShapes] }
    \cup { File("single.ses", TRUE, FALSE, TRUE,
                <<[id |-> 3720, rec |-> AxesRecord([t \in Range(EOS_TYPES) |->
                                      [dens |-> MaxLen, temps |-> MaxLen]])]>>) }
    \cup FailingFiles

InitTypes == InitAnalyzer /\ disk \in TypeFiles /\ params = DefaultParams /\ env = FullEnv

NextTypes == LoadSesameFile

SpecTypes == InitTypes /\ [][NextTypes]_vars

\* C7: after a successful load, available_eos_types lists an EoS type exactly
\* when the record has both its density and its temperature array and each
\* has more than 5 entries > 1e-10.
C7_AvailableIffMoreThanFiveValid ==
    data_loaded =>
        \A t \in Range(EOS_TYPES) :
            (t \in Range(available_eos_types)) <=>
                /\ Key(t, "dens") \in DOMAIN eos_data
                /\ Key(t, "temps") \in DOMAIN eos_data
                /\ Cardinality({i \in DOMAIN eos_data[Key(t, "dens")] :
                                    eos_data[Key(t, "dens")][i] > PLACEHOLDER_MAX}) > 5
                /\ Cardinality({i \in DOMAIN eos_data[Key(t, "temps")] :
                                    eos_data[Key(t, "temps")][i] > PLACEHOLDER_MAX}) > 5

\* a loaded record with a listed type, a type with exactly 5 valid densities
\* and a type with exactly 5 valid temperatures, neither of them listed
C7_Witness ==
    /\ data_loaded /\ result.op = "load_sesame_file" /\ result.success
    /\ "total" \in Range(available_eos_types)
    /\ Has(eos_data, Key("ion", "dens")) /\ Has(eos_data, Key("ion", "temps"))
    /\ CountValid(eos_data[Key("ion", "dens")]) = 5
    /\ CountValid(eos_data[Key("ion", "temps")]) = 6
    /\ "ion" \notin Range(available_eos_types)
    /\ Has(eos_data, Key("ele", "dens")) /\ Has(eos_data, Key("ele", "temps"))
    /\ CountValid(eos_data[Key("ele", "dens")]) = 6
    /\ CountValid(eos_data[Key("ele", "temps")]) = 5
    /\ "ele" \notin Range(available_eos_types)

(***************************************************************************)
(* Exact decimal rationals [n, d, e] = (n / d) * 10^e, kept normalised     *)
(* (d > 0, n and d coprime, zero as 0/1 * 10^0): the arithmetic of the     *)
(* ion-density formula.                                                    *)
(***************************************************************************)
Abs(x) == IF x < 0 THEN -x ELSE x

RECURSIVE GCD(_, _)
GCD(a, b) == IF b = 0 THEN a ELSE GCD(b, a % b)

Rat(n, d, e) ==
    IF n = 0 THEN [n |-> 0, d |-> 1, e |-> 0]
    ELSE LET g == GCD(Abs(n), Abs(d))
             sign == IF d < 0 THEN -1 ELSE 1
         IN  [n |-> sign * (n \div g), d |-> Abs(d) \div g, e |-> e]

\* a * b, cancelling across before multiplying
RatMul(a, b) ==
    LET g1 == GCD(Abs(a.n), b.d)
        g2 == GCD(Abs(b.n), a.d)
    IN  Rat((a.n \div g1) * (b.n \div g2), (a.d \div g2) * (b.d \div g1), a.e + b.e)

\* a / b, b not zero
RatDiv(a, b) == RatMul(a, Rat(b.d, b.n, -b.e))

\* a density or temperature of the record, counted in units of 1e-10
ToRat(x) == Rat(x, 1, -10)

\* atomic_mass_unit = 1.66054e-24
ATOMIC_MASS_UNIT == Rat(166054, 100000, -24)

(***************************************************************************)
(* Scalars of the record (abar, zmax, rho0, bulkmod): a number n/d, the    *)
(* string 'N/A', None, or some other string.                               *)
(***************************************************************************)
Num(n, d) == [tag |-> "num", n |-> n, d |-> d]
NA == [tag |-> "NA", n |-> 0, d |-> 1]
PyNone == [tag |-> "None", n |-> 0, d |-> 1]
Text == [tag |-> "text", n |-> 0, d |-> 1]

\* self.eos_data.get(key, default)
Get(rec, key, default) == IF Has(rec, key) THEN rec[key] ELSE default

\* abar <= 0 raises TypeError unless abar is a number
Comparable(x) == x.tag \in {"num", "NA"}

(***************************************************************************)
(* _calculate_ion_densities                                                *)
(***************************************************************************)
\* abar = 10.0  # Fallback value
FallbackAbarOne == Num(1, 1)

FALLBACK_ABAR == Num(10, 1)

\* except Exception: return np.zeros_like(mass_densities)
IonFailureEmpty(mass_densities) == <<>>

IonFailure(mass_densities) == [i \in 1..Len(mass_densities) |-> Rat(0, 1, 0)]

\* _calculate_ion_densities(mass_densities): [value, failed], failed when the
\* except branch ran (it prints a warning); it never raises.  Before any load
\* eos_data is None and self.eos_data.get raises AttributeError.
calculate_ion_densities(loaded, rec, mass_densities) ==
    IF ~loaded
    THEN [value |-> IonFailure(mass_densities), failed |-> TRUE]
    ELSE LET abar0 == Get(rec, "abar", FALLBACK_ABAR)
         IN  IF abar0.tag # "NA" /\ ~Comparable(abar0)
             THEN [value |-> IonFailure(mass_densities), failed |-> TRUE]
             ELSE LET abar == IF abar0.tag = "NA" \/ abar0.n <= 0
                              THEN FALLBACK_ABAR ELSE abar0
                      unit == RatMul(Rat(abar.n, abar.d, 0), ATOMIC_MASS_UNIT)
                  IN  [value |-> [i \in 1..Len(mass_densities) |->
                                     RatDiv(ToRat(mass_densities[i]), unit)],
                       failed |-> FALSE]

\* the mass-density arrays handed in: entries negative, zero, placeholder, valid
MASS_VALUES == {-1, 0, 1, 3}

RECURSIVE SeqsUpTo(_, _)
SeqsUpTo(S, n) ==
    IF n = 0 THEN {<<>>}
    ELSE LET shorter == SeqsUpTo(S, n - 1)
         IN  shorter \cup {Append(q, x) : q \in {r \in shorter : Len(r) = n - 1}, x \in S}

CalculateIonDensities ==
    /\ \E mass_densities \in SeqsUpTo(MASS_VALUES, MaxMass) :
          LET r == calculate_ion_densities(data_loaded, eos_data, mass_densities)
          IN  result' = [op |-> "_calculate_ion_densities", input |-> mass_densities,
                         status |-> "returned", value |-> r.value, failed |-> r.failed]
    /\ AnalysisLeaves /\ UNCHANGED <<disk, params, gui>>

\* the values of abar a record may hold
ABAR_VALUES ==
    { Num(10, 1), Num(1, 1), Num(5, 2), Num(651, 100), Num(0, 1), Num(-1, 1),
      NA, PyNone, Text }

IonFiles ==
    { File("abar.ses", TRUE, TRUE, TRUE, <<[id |-> 7592, rec |-> [k \in {"abar"} |-> a]]>>) :
        a \in ABAR_VALUES }
    \cup { File("noabar.ses", TRUE, TRUE, TRUE, <<[id |-> 7592, rec |-> [k \in {"rho0"} |-> Num(1, 1)]]>>) }

InitIon == InitAnalyzer /\ disk \in IonFiles /\ params = DefaultParams /\ env = FullEnv

NextIon == LoadSesameFile \/ CalculateIonDensities

SpecIon == InitIon /\ [][NextIon]_vars

IonRan == result.op = "_calculate_ion_densities"

\* the claim's abar_eff: the record's abar when it is a number > 0, and 10.0
\* when abar is absent, 'N/A' or <= 0
ClaimAbarKnownOrUnknown ==
    "abar" \notin DOMAIN eos_data \/ eos_data["abar"].tag \in {"num", "NA"}

ClaimAbarEff ==
    IF "abar" \in DOMAIN eos_data /\ eos_data["abar"].tag = "num" /\ eos_data["abar"].n > 0
    THEN Rat(eos_data["abar"].n, eos_data["abar"].d, 0)
    ELSE Rat(10, 1, 0)

\* C8: for every mass-density array m the ion densities have the length of m
\* and element i times (abar_eff * 1.66054e-24) is m[i], abar_eff being the
\* record's abar when > 0 and 10.0 when abar is absent, 'N/A' or <= 0; zero
\* and negative entries go through the same formula, nothing is raised.
C8_IonDensityFormula ==
    (IonRan /\ data_loaded /\ ClaimAbarKnownOrUnknown) =>
        /\ result.status = "returned" /\ ~result.failed
        /\ Len(result.value) = Len(result.input)
        /\ \A i \in 1..Len(result.input) :
              RatMul(result.value[i], RatMul(ClaimAbarEff, Rat(166054, 100000, -24)))
                  = Rat(result.input[i], 1, -10)

\* an array with a negative, a zero and a valid entry went through the formula
\* with the fallback abar (the record's abar is <= 0)
C8_Witness ==
    /\ IonRan /\ data_loaded
    /\ "abar" \in DOMAIN eos_data /\ eos_data["abar"] = Num(-1, 1)
    /\ result.input = <<-1, 0, 3>>
    /\ result.value[1].n < 0 /\ result.value[2].n = 0 /\ result.value[3].n > 0

\* the computation fails: nothing is loaded (eos_data is None), or abar is a
\* value that cannot be compared with 0
ClaimIonFails ==
    \/ ~data_loaded
    \/ "abar" \in DOMAIN eos_data /\ eos_data["abar"].tag \in {"None", "text"}

\* C9: when the computation fails (nothing is loaded, or abar cannot be
\* compared with 0), nothing is raised and the result is an all-zero array of
\* the shape of the input.
C9_FailureGivesZeros ==
    (IonRan /\ ClaimIonFails) =>
        /\ result.status = "returned"
        /\ Len(result.value) = Len(result.input)
        /\ \A i \in 1..Len(result.input) : result.value[i].n = 0

\* abar is None, the input has three entries, the result is three zeros
C9_Witness ==
    /\ IonRan /\ data_loaded
    /\ "abar" \in DOMAIN eos_data /\ eos_data["abar"] = PyNone
    /\ result.input = <<3, 1, 3>>
    /\ result.failed
    /\ result.value = <<Rat(0, 1, 0), Rat(0, 1, 0), Rat(0, 1, 0)>>

(***************************************************************************)
(* validate_parameters.  A Znum or Xfracs string is the sequence of its    *)
(* comma-separated items (what split(',') gives), the empty string being   *)
(* the one empty item; tabnum and Tmin are single items.  Fractions and    *)
(* temperatures are counted in units of 1e-7, the tolerance 1e-6 is 10.    *)
(***************************************************************************)
\* the empty string, split at commas
EMPTY == <<"">>

\* not params['Znum']: the empty string is falsy
Truthy(items) == items # EMPTY

\* int(item.strip()): the items that parse, and their values
INT_ITEMS == {"1", "6", "7", "0", "-1", "7592"}

IntOf(item) ==
    CASE item = "1" -> 1 [] item = "6" -> 6 [] item = "7" -> 7
      [] item = "0" -> 0 [] item = "-1" -> -1 [] item = "7592" -> 7592

IntParses(item) == item \in INT_ITEMS

\* float(item.strip()): every integer item parses, and so do decimals and
\* 'nan'; a float is [nan, v], v in units of 1e-7
FLOAT_ITEMS == INT_ITEMS \cup {"0.5", "1.0", "1.5", "nan"}

FloatParses(item) == item \in FLOAT_ITEMS

FloatOf(item) ==
    IF item = "nan" THEN [nan |-> TRUE, v |-> 0]
    ELSE [nan |-> FALSE,
          v |-> CASE item = "0.5" -> 5000000 [] item = "1.0" -> 10000000
                  [] item = "1.5" -> 15000000
                  [] OTHER -> IntOf(item) * 10000000]

\* x <= 0 on floats: False when x is NaN
FloatLeqZero(x) == ~x.nan /\ x.v <= 0

\* sum(xfracs_list)
RECURSIVE FloatSum(_)
FloatSum(xs) ==
    IF xs = <<>> THEN [nan |-> FALSE, v |-> 0]
    ELSE LET rest == FloatSum(Tail(xs))
         IN  [nan |-> Head(xs).nan \/ rest.nan, v |-> Head(xs).v + rest.v]

\* abs(sum(xfracs_list) - 1.0) > 1e-6: False when the sum is NaN
SumOffOne(total) == ~total.nan /\ Abs(total.v - 10000000) > 10

\* lines 93-101: the Znum block
ZnumErrors(p) ==
    IF "Znum" \notin DOMAIN p \/ ~Truthy(p["Znum"])
    THEN <<"Atomic numbers (Znum) are required">>
    ELSE IF \E i \in 1..Len(p["Znum"]) : ~IntParses(p["Znum"][i])
    THEN <<"Invalid atomic numbers format">>
    ELSE IF \E i \in 1..Len(p["Znum"]) : IntOf(p["Znum"][i]) <= 0
    THEN <<"All atomic numbers must be positive">>
    ELSE <<>>

\* lines 103-113: the Xfracs block
XfracsErrors(p) ==
    IF "Xfracs" \notin DOMAIN p \/ ~Truthy(p["Xfracs"])
    THEN <<"Element fractions (Xfracs) are required">>
    ELSE IF \E i \in 1..Len(p["Xfracs"]) : ~FloatParses(p["Xfracs"][i])
    THEN <<"Invalid element fractions format">>
    ELSE LET xfracs_list == [i \in 1..Len(p["Xfracs"]) |-> FloatOf(p["Xfracs"][i])]
         IN  (IF \E i \in 1..Len(xfracs_list) : FloatLeqZero(xfracs_list[i])
              THEN <<"All element fractions must be positive">> ELSE <<>>)
             \o (IF SumOffOne(FloatSum(xfracs_list))
                 THEN <<"Element fractions should sum to 1.0">> ELSE <<>>)

\* lines 116-123: the length check
LengthErrors(p) ==
    IF /\ "Znum" \in DOMAIN p /\ "Xfracs" \in DOMAIN p
       /\ Truthy(p["Znum"]) /\ Truthy(p["Xfracs"])
       /\ Len(p["Znum"]) # Len(p["Xfracs"])
    THEN <<"Number of atomic numbers must match number of fractions">>
    ELSE <<>>

\* lines 126-130: tabnum
TabnumErrors(p) ==
    IF "tabnum" \in DOMAIN p /\ p["tabnum"] # "" /\ ~IntParses(p["tabnum"])
    THEN <<"Table number must be an integer">>
    ELSE <<>>

\* lines 132-138: Tmin
TminErrors(p) ==
    IF "Tmin" \in DOMAIN p /\ p["Tmin"] # ""
    THEN IF ~FloatParses(p["Tmin"])
         THEN <<"Minimum temperature must be a number">>
         ELSE IF FloatLeqZero(FloatOf(p["Tmin"]))
         THEN <<"Minimum temperature must be positive">>
         ELSE <<>>
    ELSE <<>>

\* validate_parameters(params): the list of errors
validate_parameters(p) ==
    ZnumErrors(p) \o XfracsErrors(p) \o LengthErrors(p) \o TabnumErrors(p) \o TminErrors(p)

ValidateParameters ==
    /\ result' = [op |-> "validate_parameters", errors |-> validate_parameters(params)]
    /\ AnalysisLeaves /\ UNCHANGED <<disk, params, gui>>

\* the strings tried in the form
ZNUM_ITEMS == {"1", "0", "x"}
XFRAC_ITEMS == {"0.5", "1.0", "0", "x", "nan"}
TABNUM_STRINGS == {"", "7", "x", "1.5"}
TMIN_STRINGS == {"", "1.5", "0", "x", "nan"}

\* the non-empty item lists of at most n items
ItemLists(S, n) == SeqsUpTo(S, n) \ {<<>>}

\* a mapping with the key only when the value is given
Field(key, value) == IF value.some THEN (key :> value.v) ELSE NoRecord

Options(S) == {None} \cup {Some(x) : x \in S}

ParamForms ==
    { Field("Znum", z) @@ Field("Xfracs", x) @@ Field("tabnum", t) @@ Field("Tmin", m) :
        z \in Options({EMPTY} \cup ItemLists(ZNUM_ITEMS, MaxItems)),
        x \in Options({EMPTY} \cup ItemLists(XFRAC_ITEMS, MaxItems)),
        t \in Options(TABNUM_STRINGS),
        m \in Options(TMIN_STRINGS) }

InitValidate ==
    /\ InitAnalyzer /\ env = FullEnv
    /\ disk = File("missing.ses", FALSE, FALSE, FALSE, <<>>)
    /\ params \in ParamForms

NextValidate == ValidateParameters

SpecValidate == InitValidate /\ [][NextValidate]_vars

(***************************************************************************)
(* The five rules, as the claim words them.                                *)
(***************************************************************************)
ClaimPositiveInt(item) == item \in {"1", "6", "7"}

ClaimInt(item) == item \in {"1", "6", "7", "0", "-1"}

\* the positive numbers among the items, with their values in units of 1e-7
ClaimPositiveNumber(item) == item \in {"1", "6", "7", "0.5", "1.0", "1.5"}

ClaimValue(item) ==
    CASE item = "1" -> 10000000 [] item = "6" -> 60000000 [] item = "7" -> 70000000
      [] item = "0.5" -> 5000000 [] item = "1.0" -> 10000000 [] item = "1.5" -> 15000000

RECURSIVE ClaimSum(_)
ClaimSum(items) == IF items = <<>> THEN 0 ELSE ClaimValue(Head(items)) + ClaimSum(Tail(items))

\* a list field (Znum, Xfracs) or a single field (tabnum, Tmin) is filled in
ClaimGiven(key) == key \in DOMAIN params /\ params[key] # EMPTY

ClaimGivenSingle(key) == key \in DOMAIN params /\ params[key] # ""

ZnumRuleViolated ==
    ~ClaimGiven("Znum") \/ \E i \in 1..Len(params["Znum"]) : ~ClaimPositiveInt(params["Znum"][i])

XfracsRuleViolated ==
    \/ ~ClaimGiven("Xfracs")
    \/ \E i \in 1..Len(params["Xfracs"]) : ~ClaimPositiveNumber(params["Xfracs"][i])
    \/ Abs(ClaimSum(params["Xfracs"]) - 10000000) > 10

LengthRuleViolated ==
    ClaimGiven("Znum") /\ ClaimGiven("Xfracs") /\ Len(params["Znum"]) # Len(params["Xfracs"])

TabnumRuleViolated == ClaimGivenSingle("tabnum") /\ ~ClaimInt(params["tabnum"])

TminRuleViolated == ClaimGivenSingle("Tmin") /\ ~ClaimPositiveNumber(params["Tmin"])

ZnumMessages ==
    {"Atomic numbers (Znum) are required", "Invalid atomic numbers format",
     "All atomic numbers must be positive"}

XfracsMessages ==
    {"Element fractions (Xfracs) are required", "Invalid element fractions format",
     "All element fractions must be positive", "Element fractions should sum to 1.0"}

LengthMessages == {"Number of atomic numbers must match number of fractions"}

TabnumMessages == {"Table number must be an integer"}

TminMessages == {"Minimum temperature must be a number", "Minimum temperature must be positive"}

Reported(messages) == \E i \in 1..Len(result.errors) : result.errors[i] \in messages

ViolatedRules ==
    {r \in {"Znum", "Xfracs", "length", "tabnum", "Tmin"} :
        \/ r = "Znum" /\ ZnumRuleViolated
        \/ r = "Xfracs" /\ XfracsRuleViolated
        \/ r = "length" /\ LengthRuleViolated
        \/ r = "tabnum" /\ TabnumRuleViolated
        \/ r = "Tmin" /\ TminRuleViolated}

AllViolatedRulesReported ==
    /\ ZnumRuleViolated => Reported(ZnumMessages)
    /\ XfracsRuleViolated => Reported(XfracsMessages)
    /\ LengthRuleViolated => Reported(LengthMessages)
    /\ TabnumRuleViolated => Reported(TabnumMessages)
    /\ TminRuleViolated => Reported(TminMessages)

\* C10: when several of the five rules are violated by the same input, the
\* list validate_parameters returns holds a message for each violated rule.
C10_EveryViolatedRuleReported ==
    (result.op = "validate_parameters" /\ Cardinality(ViolatedRules) >= 2) =>
        AllViolatedRulesReported

\* C11: validate_parameters returns an empty list exactly when the input is
\* valid (none of the five rules is violated); any violation yields a
\* non-empty list.
C11_EmptyListIffValid ==
    result.op = "validate_parameters" =>
        ((result.errors = <<>>) <=> (ViolatedRules = {}))

(***************************************************************************)
(* generate_report.  The report is kept as its sections' values; a value   *)
(* the code prints with a fixed number of decimals is kept as the integer  *)
(* of its digits.                                                          *)
(***************************************************************************)
RECURSIVE Pow10(_)
Pow10(k) == IF k = 0 THEN 1 ELSE 10 * Pow10(k - 1)

\* a <= b on rationals
RatLeq(a, b) ==
    IF b.n = 0 THEN a.n <= 0
    ELSE LET q == RatDiv(a, b)
             below == IF q.e >= 0 THEN q.n * Pow10(q.e) <= q.d
                      ELSE q.n <= q.d * Pow10(-q.e)
         IN  IF b.n > 0 THEN below ELSE ~below \/ a = b

\* f"{x:.3f}": the digits of x rounded to `places` decimals (half to even)
FormatFixed(x, places) ==
    LET scaled == x.n * Pow10(places)
        floor == scaled \div x.d
        twice == 2 * (scaled % x.d)
        digits == IF twice > x.d \/ (twice = x.d /\ floor % 2 = 1) THEN floor + 1 ELSE floor
    IN  [tag |-> "num", digits |-> digits, places |-> places]

PrintedNA == [tag |-> "N/A", digits |-> 0, places |-> 0]

\* formatting a value that is no number raises (TypeError for None,
\* ValueError for a string)
FormatRaises(x) == x.tag \in {"None", "text"}

\* the exception of the first scalar (abar, zmax, rho0) that does not format
FormatError(rec) ==
    LET bad == CHOOSE i \in 1..3 :
                  /\ FormatRaises(Get(rec, <<"abar", "zmax", "rho0">>[i], NA))
                  /\ \A j \in 1..(i - 1) :
                        ~FormatRaises(Get(rec, <<"abar", "zmax", "rho0">>[j], NA))
    IN  IF Get(rec, <<"abar", "zmax", "rho0">>[bad], NA).tag = "None"
        THEN "TypeError" ELSE "ValueError"

\* an unknown scalar printed as the number 0
PrintScalarZero(rec, key, places) ==
    LET x == Get(rec, key, NA)
    IN  FormatFixed(IF x.tag = "NA" THEN Num(0, 1) ELSE x, places)

\* report line of one scalar: N/A when the record lacks it or holds 'N/A'
PrintScalar(rec, key, places) ==
    LET x == Get(rec, key, NA)
    IN  IF x.tag = "NA" THEN PrintedNA ELSE FormatFixed(x, places)

\* [min, max] of a non-empty integer array, None for an empty one
IntRange(a) == IF a = <<>> THEN None ELSE Some(<<Min(Range(a)), Max(Range(a))>>)

RatRange(a) ==
    IF a = <<>> THEN None
    ELSE Some(<<CHOOSE x \in Range(a) : \A y \in Range(a) : RatLeq(x, y),
                CHOOSE x \in Range(a) : \A y \in Range(a) : RatLeq(y, x)>>)

\* lines 141-168: the coverage entry of one type
CoverageEntry(rec, eos_type) ==
    LET densities == rec[Key(eos_type, "dens")]
        temperatures == rec[Key(eos_type, "temps")]
        ion_densities == calculate_ion_densities(TRUE, rec, densities).value
    IN  [eos_type |-> eos_type,
         valid_dens |-> CountValid(densities),
         valid_temp |-> CountValid(temperatures),
         points |-> CountValid(densities) * CountValid(temperatures),
         dens_range |-> IntRange(Compress(densities, ValidMask(densities))),
         ion_range |-> RatRange(Compress(ion_densities, ValidMask(densities))),
         temp_range |-> IntRange(Compress(temperatures, ValidMask(temperatures)))]

RECURSIVE Coverage(_, _)
Coverage(rec, types) ==
    IF types = <<>> THEN <<>>
    ELSE (IF Has(rec, Key(Head(types), "dens")) /\ Has(rec, Key(Head(types), "temps"))
          THEN <<CoverageEntry(rec, Head(types))>> ELSE <<>>)
         \o Coverage(rec, Tail(types))

\* total_points = points (the last type only) in place of +=
SumPointsLast(entries) ==
    IF entries = <<>> THEN 0 ELSE entries[Len(entries)].points

RECURSIVE SumPoints(_)
SumPoints(entries) ==
    IF entries = <<>> THEN 0 ELSE Head(entries).points + SumPoints(Tail(entries))

\* pressure_data.size and np.sum(pressure_data < 0), over the grid as stored
RECURSIVE GridSize(_)
GridSize(grid) == IF grid = <<>> THEN 0 ELSE Len(Head(grid)) + GridSize(Tail(grid))

RECURSIVE GridNegative(_)
GridNegative(grid) ==
    IF grid = <<>> THEN 0
    ELSE Cardinality({j \in 1..Len(Head(grid)) : Head(grid)[j] < 0}) + GridNegative(Tail(grid))

\* negative/total*100 printed with one decimal; nan for an empty grid
Percent(negative, total) ==
    IF total = 0 THEN [tag |-> "nan", digits |-> 0, places |-> 1]
    ELSE FormatFixed(Num(negative * 100, total), 1)

\* the counts of one stored grid: negative entries, entries, percentage
GridCounts(grid) ==
    [negative |-> GridNegative(grid), total |-> GridSize(grid),
     percent |-> Percent(GridNegative(grid), GridSize(grid))]

NoCounts == [negative |-> 0, total |-> 0, percent |-> PrintedNA]

\* lines 197-212: the data-quality entry of one type
QualityEntry(rec, eos_type) ==
    LET has_pres == Has(rec, Key(eos_type, "pres"))
        has_eint == Has(rec, Key(eos_type, "eint"))
    IN  [eos_type |-> eos_type,
         has_pres |-> has_pres,
         pres |-> IF has_pres THEN GridCounts(rec[Key(eos_type, "pres")]) ELSE NoCounts,
         has_eint |-> has_eint,
         eint |-> IF has_eint THEN GridCounts(rec[Key(eos_type, "eint")]) ELSE NoCounts]

\* the first usable type, whether or not `total` is usable
MainEosFirst(available) == available[1]

\* main_eos = 'total' if 'total' in self.available_eos_types else
\* self.available_eos_types[0], for a non-empty list
MainEos(available) ==
    IF "total" \in Range(available) THEN "total" ELSE available[1]

\* lines 173-193: the ion-density analysis; abar is a number or 'N/A' here
\* (anything else raised in the material-properties section)
IonAnalysis(rec, available) ==
    LET abar == Get(rec, "abar", NA)
    IN  IF abar.tag # "NA" /\ abar.n > 0
        THEN IF "total" \notin Range(available) /\ available = <<>>
             THEN [raised |-> TRUE, known |-> TRUE, main_eos |-> "", ratio_range |-> None]
             ELSE LET main_eos == MainEos(available)
                      dens_key == Key(main_eos, "dens")
                  IN  IF Has(rec, dens_key)
                      THEN LET densities == rec[dens_key]
                               ion == calculate_ion_densities(TRUE, rec, densities).value
                               ratios == [i \in 1..Len(densities) |->
                                             IF densities[i] > PLACEHOLDER_MAX
                                             THEN RatDiv(ion[i], ToRat(densities[i]))
                                             ELSE Rat(0, 1, 0)]
                           IN  [raised |-> FALSE, known |-> TRUE, main_eos |-> main_eos,
                                ratio_range |->
                                    RatRange(Compress(ratios, ValidMask(densities)))]
                      ELSE [raised |-> FALSE, known |-> TRUE, main_eos |-> main_eos,
                            ratio_range |-> None]
        ELSE [raised |-> FALSE, known |-> FALSE, main_eos |-> "", ratio_range |-> None]

Raised(op, exc) == [op |-> op, status |-> "raised", exc |-> exc]

\* generate_report()
generate_report(loaded, rec, available, mid) ==
    LET op == "generate_report"
    IN  IF ~loaded
        THEN [op |-> op, status |-> "returned", text |-> "No data loaded"]
        ELSE IF \E k \in {"abar", "zmax", "rho0"} : FormatRaises(Get(rec, k, NA))
        THEN Raised(op, FormatError(rec))
        ELSE LET ion == IonAnalysis(rec, available)
                 coverage == Coverage(rec, available)
             IN  IF ion.raised
                 THEN Raised(op, "IndexError")
                 ELSE [op |-> op, status |-> "returned", text |-> "report",
                       material_id |-> mid,
                       abar |-> PrintScalar(rec, "abar", 3),
                       zmax |-> PrintScalar(rec, "zmax", 1),
                       rho0 |-> PrintScalar(rec, "rho0", 3),
                       coverage |-> coverage,
                       total_points |-> SumPoints(coverage),
                       ion |-> ion,
                       quality |-> [i \in 1..Len(available) |->
                                       QualityEntry(rec, available[i])]]

GenerateReport ==
    /\ result' = generate_report(data_loaded, eos_data, available_eos_types, material_id)
    /\ AnalysisLeaves /\ UNCHANGED <<disk, params, gui>>

(***************************************************************************)
(* Input files for the report: the types `total` and `ion` with arrays of  *)
(* length MaxLen, pressure and energy grids, and the material scalars.     *)
(***************************************************************************)
ReportShapes ==
    { [dens |-> ABSENT, temps |-> ABSENT],
      [dens |-> MIN_VALID, temps |-> MaxLen],
      [dens |-> MIN_VALID + 1, temps |-> MIN_VALID + 1],
      [dens |-> MaxLen, temps |-> MIN_VALID + 1],
      [dens |-> MaxLen, temps |-> MaxLen] }

GRID_PATTERNS == {"valid_negative", "padding_negative", "mixed"}

\* the value a pattern stores at row d, column t
PatternValue(pattern, d, t, d_valid, t_valid) ==
    CASE pattern = "valid_negative" -> IF d_valid /\ t_valid THEN -1 ELSE 1
      [] pattern = "padding_negative" -> IF d_valid /\ t_valid THEN 1 ELSE -1
      [] pattern = "mixed" -> ((d + 2 * t) % 3) - 1

PatternGrid(pattern, densities, temperatures) ==
    [d \in 1..Len(densities) |->
        [t \in 1..Len(temperatures) |->
            PatternValue(pattern, d, t, densities[d] > PLACEHOLDER_MAX,
                         temperatures[t] > PLACEHOLDER_MAX)]]

\* the grids of the types that have both axes
GridsRecord(axes, types, field, pattern) ==
    LET with_axes == {t \in types : Has(axes, Key(t, "dens")) /\ Has(axes, Key(t, "temps"))}
    IN  [key \in {Key(t, field) : t \in with_axes} |->
            LET t == CHOOSE u \in with_axes : key = Key(u, field)
            IN  PatternGrid(pattern, axes[Key(t, "dens")], axes[Key(t, "temps")])]

ReportRecords ==
    { LET axes == AxesRecord(shapes)
      IN  axes
          @@ (IF pres.some THEN GridsRecord(axes, DOMAIN shapes, "pres", pres.v) ELSE NoRecord)
          @@ (IF eint.some THEN GridsRecord(axes, DOMAIN shapes, "eint", eint.v) ELSE NoRecord)
          @@ Field("abar", abar) @@ Field("zmax", zmax) @@ Field("rho0", rho0) :
        shapes \in [{"total", "ion"} -> ReportShapes],
        pres \in Options(GRID_PATTERNS), eint \in Options(GRID_PATTERNS),
        abar \in Options({Num(10, 1), Num(5, 2), Num(0, 1), NA, PyNone}),
        zmax \in Options({Num(7, 2)}),
        rho0 \in Options({Num(1, 1), Text}) }

ReportFiles == { File("report.ses", TRUE, TRUE, TRUE, <<[id |-> 7592, rec |-> r]>>) : r \in ReportRecords }

InitReport == InitAnalyzer /\ disk \in ReportFiles /\ params = DefaultParams /\ env = FullEnv

NextReport == LoadSesameFile \/ GenerateReport

SpecReport == InitReport /\ [][NextReport]_vars

ReportMade == result.op = "generate_report" /\ result.status = "returned" /\ result.text = "report"

\* the entries of a stored grid whose density and temperature are both valid,
\* and those among them that are negative
ClaimValidCells(eos_type) ==
    {<<d, t>> \in (DOMAIN eos_data[Key(eos_type, "dens")]) \X (DOMAIN eos_data[Key(eos_type, "temps")]) :
        /\ eos_data[Key(eos_type, "dens")][d] > PLACEHOLDER_MAX
        /\ eos_data[Key(eos_type, "temps")][t] > PLACEHOLDER_MAX}

ClaimNegativeCells(eos_type, field) ==
    {c \in ClaimValidCells(eos_type) : eos_data[Key(eos_type, field)][c[1]][c[2]] < 0}

\* C6: in the report the negative-pressure and negative-internal-energy counts
\* and their totals are taken only over the grid entries whose density and
\* temperature are both valid (> 1e-10).
C6_QualityCountsExcludePlaceholders ==
    ReportMade =>
        \A i \in 1..Len(result.quality) :
            LET q == result.quality[i]
            IN  /\ q.has_pres =>
                    /\ q.pres.total = Cardinality(ClaimValidCells(q.eos_type))
                    /\ q.pres.negative = Cardinality(ClaimNegativeCells(q.eos_type, "pres"))
                /\ q.has_eint =>
                    /\ q.eint.total = Cardinality(ClaimValidCells(q.eos_type))
                    /\ q.eint.negative = Cardinality(ClaimNegativeCells(q.eos_type, "eint"))

(***************************************************************************)
(* Conversion: OPACConverter.convert_file and the window's handlers around *)
(* it.  The calls of one conversion are kept in order, each with the       *)
(* params mapping it was made with: in the thread's record while it runs,  *)
(* in `calls` once the conversion has returned.                            *)
(***************************************************************************)
Call(name, p, outcome) ==
    [call |-> name, params |-> p, outcome |-> outcome, errors |-> <<>>]

\* validate_parameters as one recorded call, with the list it returned
ValidateCall(p) ==
    [call |-> "validate_parameters", params |-> p, outcome |-> "returned",
     errors |-> validate_parameters(p)]

\* what the external library does in one conversion: toEosDict returns a
\* complete dictionary, one without a needed key, or raises; writeIonmixFile
\* writes the file, raises before or after creating it, or returns without
\* a file
LIBRARY_BEHAVIOURS ==
    [eos : {"ok", "incomplete", "raises"},
     write : {"written", "raises", "raises_after_writing", "nothing"}]

\* (success, output_file, message) and what the call did
Converted(success, output_file, message, made, wrote) ==
    [ret |-> [op |-> "convert_file", status |-> "returned", success |-> success,
              output_file |-> output_file, message |-> message],
     calls |-> made, wrote |-> wrote]

\* no output file is returned
NoOutput == ""

\* os.path.splitext(os.path.basename(input_file))[0] of the files converted
Basename(name) ==
    CASE name = "double.ses" -> "double" [] name = "single.ses" -> "single"
      [] name = "empty.ses" -> "empty" [] name = "garbage.ses" -> "garbage"
      [] name = "missing.ses" -> "missing"
      [] name = "first.ses" -> "first" [] name = "second.ses" -> "second"
      [] name = "shot.v2.ses" -> "shot.v2"

\* lines 219-225 with every output name set to the default
OutputFileOfInput(file, p) == "output_dir/" \o Basename(file.name) \o "_converted" \o ".cn4"

\* lines 219-225: os.path.join(output_dir, output_name + '.cn4'), output_name
\* being params['outname'] unless that is missing or empty
OutputFile(file, p) ==
    LET output_name == IF Has(p, "outname") /\ p["outname"] # ""
                       THEN p["outname"]
                       ELSE Basename(file.name) \o "_converted"
    IN  "output_dir/" \o output_name \o ".cn4"

\* get_converter_status(): conversion is possible with opacplot2 alone
get_converter_status(e) ==
    [opacplot2_available |-> e.opacplot2_available,
     hedp_available |-> e.hedp_available,
     conversion_possible |-> e.opacplot2_available,
     limitations |-> IF ~e.opacplot2_available
                     THEN <<"opacplot2 not available - no conversion possible">>
                     ELSE IF ~e.hedp_available
                     THEN <<"hedp not available", "Using opacplot2-only conversion method">>
                     ELSE <<>>]

\* lines 280-281: except Exception as e: return False, None, "Conversion error: ..."
CaughtPropagates(made, wrote) ==
    [ret |-> Raised("convert_file", "Exception"), calls |-> made, wrote |-> wrote]

Caught(made, wrote) == Converted(FALSE, NoOutput, "Conversion error", made, wrote)

\* lines 183-184: if validation_errors: return
GateOpen(validation_errors) == FALSE

ValidationFails(validation_errors) == validation_errors # <<>>

\* lines 212-217: the parsing of the parameters raises (KeyError for a
\* missing key, ValueError for an item that does not parse)
ParseRaises(p) ==
    \/ "Znum" \notin DOMAIN p
    \/ \E i \in 1..Len(p["Znum"]) : ~IntParses(p["Znum"][i])
    \/ "Xfracs" \notin DOMAIN p
    \/ \E i \in 1..Len(p["Xfracs"]) : ~FloatParses(p["Xfracs"][i])
    \/ "tabnum" \in DOMAIN p /\ p["tabnum"] # "" /\ ~IntParses(p["tabnum"])
    \/ "Tmin" \in DOMAIN p /\ p["Tmin"] # "" /\ ~FloatParses(p["Tmin"])

\* lines 194-199: the decode calls made, double precision first
DecodeCalls(file, p) ==
    IF file.double_ok THEN <<Call("OpgSesame", p, "double")>>
    ELSE <<Call("OpgSesame", p, "raises"),
           Call("OpgSesame", p, IF file.single_ok THEN "single" ELSE "raises")>>

\* convert_file(input_file, output_dir, params): file is what is at input_file
\* and existing the output files there before the call
convert_file(available, file, output_dir_exists, existing, p, lib) ==
    LET validation == ValidateCall(p)
        decode == DecodeCalls(file, p)
        eos == Call("toEosDict", p, lib.eos)
        write == Call("writeIonmixFile", p, lib.write)
        wrote == lib.write \in {"written", "raises_after_writing"}
    IN  IF ~available
        THEN Converted(FALSE, NoOutput, "Conversion not possible", <<>>, FALSE)
        ELSE IF ~file.exists
        THEN Converted(FALSE, NoOutput, "Input file not found", <<>>, FALSE)
        ELSE IF ~output_dir_exists
        THEN Converted(FALSE, NoOutput, "Output directory not found", <<>>, FALSE)
        ELSE IF ValidationFails(validation.errors)
        THEN Converted(FALSE, NoOutput, "Parameter validation failed", <<validation>>, FALSE)
        ELSE IF ~(file.double_ok \/ file.single_ok)
        THEN Converted(FALSE, NoOutput, "Failed to load SESAME file",
                       <<validation>> \o decode, FALSE)
        ELSE IF file.materials = <<>>
        THEN Converted(FALSE, NoOutput, "No material data found in SESAME file",
                       <<validation>> \o decode, FALSE)
        ELSE IF ParseRaises(p)
        THEN Caught(<<validation>> \o decode, FALSE)
        ELSE IF lib.eos # "ok"
        THEN Caught(<<validation>> \o decode \o <<eos>>, FALSE)
        ELSE IF lib.write \in {"raises", "raises_after_writing"}
        THEN Caught(<<validation>> \o decode \o <<eos, write>>, wrote)
        ELSE IF wrote \/ OutputFile(file, p) \in existing
        THEN Converted(TRUE, OutputFile(file, p), "Conversion successful",
                       <<validation>> \o decode \o <<eos, write>>, wrote)
        ELSE Converted(FALSE, NoOutput, "Conversion completed but output file not found",
                       <<validation>> \o decode \o <<eos, write>>, FALSE)

\* a call of convert_file with the form's strings, from outside the window
ConvertFile ==
    /\ \E lib \in LIBRARY_BEHAVIOURS :
          LET r == convert_file(get_converter_status(env).conversion_possible, disk, env.output_dir_exists,
                                outputs, params, lib)
          IN  /\ result' = r.ret
              /\ calls' = r.calls
              /\ outputs' = IF r.wrote THEN outputs \cup {OutputFile(disk, params)}
                            ELSE outputs
    /\ UNCHANGED <<disk, params, analyzer, current_file, conversion, env, seen, elsewhere>>

\* SESAMEAnalysisGUI.load_file: current_file follows a successful load
LoadFile ==
    /\ load_sesame_file
    /\ current_file' = IF result'.success THEN disk.name ELSE current_file
    /\ UNCHANGED <<conversion, calls, outputs, env, seen, elsewhere>>

Handled(outcome) == [op |-> "convert_to_cn4", outcome |-> outcome]

\* SESAMEAnalysisGUI.convert_to_cn4, up to the start of the thread; one
\* conversion thread at a time
ConvertToCn4 ==
    /\ conversion = Idle
    /\ LET validation == ValidateCall(params)
       IN  IF current_file = NoFile
           THEN /\ result' = Handled("No SESAME file loaded")
                /\ UNCHANGED <<conversion, calls>>
           ELSE IF ValidationFails(validation.errors)
           THEN /\ result' = Handled("Parameter validation failed")
                /\ calls' = <<validation>>
                /\ UNCHANGED conversion
           ELSE IF ~env.output_dir_exists
           THEN /\ result' = Handled("Output directory does not exist")
                /\ calls' = <<validation>>
                /\ UNCHANGED conversion
           ELSE /\ result' = Handled("Starting conversion")
                /\ conversion' = [phase |-> "running", params |-> params,
                                   calls |-> <<validation>>]
                /\ UNCHANGED calls
    /\ UNCHANGED <<disk, params, analyzer, current_file, outputs, env, seen, elsewhere>>

\* conversion_thread: convert_file with the params the handler read,
\* then conversion_complete is scheduled with what it returned
ConversionThread ==
    /\ conversion.phase = "running"
    /\ \E lib \in LIBRARY_BEHAVIOURS :
          LET r == convert_file(get_converter_status(env).conversion_possible, disk, env.output_dir_exists,
                                outputs, conversion.params, lib)
          IN  /\ conversion' = [phase |-> "finished", ret |-> r.ret]
              /\ calls' = conversion.calls \o r.calls
              /\ outputs' = IF r.wrote THEN outputs \cup {OutputFile(disk, conversion.params)}
                            ELSE outputs
    /\ UNCHANGED <<disk, params, analyzer, result, current_file, env, seen, elsewhere>>

\* conversion_complete(success, output_file, message)
ConversionComplete ==
    /\ conversion.phase = "finished"
    /\ result' = [op |-> "conversion_complete", success |-> conversion.ret.success,
                  message |-> conversion.ret.message]
    /\ conversion' = Idle
    /\ UNCHANGED <<disk, params, analyzer, current_file, calls, outputs, env, seen, elsewhere>>

\* the user edits the strings of the parameter form
CONVERT_FORMS ==
    { DefaultParams,
      [Znum |-> <<"1">>, Xfracs |-> <<"1.0">>, tabnum |-> "7", Tmin |-> "1.5"],
      [Znum |-> <<"0">>, Xfracs |-> <<"1.0">>, tabnum |-> "", Tmin |-> ""],
      [Znum |-> <<"1">>, Xfracs |-> <<"nan">>, tabnum |-> "", Tmin |-> ""],
      [Znum |-> <<"1", "6">>, Xfracs |-> <<"1.0">>, tabnum |-> "", Tmin |-> ""],
      [Znum |-> <<"1">>, Xfracs |-> <<"1.0">>, tabnum |-> "x", Tmin |-> "0"],
      [Xfracs |-> <<"1.0">>, tabnum |-> "", Tmin |-> ""] }

EditForm ==
    /\ params' \in CONVERT_FORMS \ {params}
    /\ UNCHANGED <<disk, analyzer, result, gui>>

\* the files a conversion may meet: missing, decoded in neither precision,
\* in single precision only, decoded without materials, decoded with one
CONVERT_FILES ==
    { File("missing.ses", FALSE, FALSE, FALSE, <<>>),
      File("garbage.ses", TRUE, FALSE, FALSE, <<>>),
      File("empty.ses", TRUE, TRUE, TRUE, <<>>),
      File("single.ses", TRUE, FALSE, TRUE, <<[id |-> 7592, rec |-> [k \in {"abar"} |-> Num(651, 100)]]>>),
      File("double.ses", TRUE, TRUE, TRUE, <<[id |-> 7592, rec |-> [k \in {"abar"} |-> Num(651, 100)]]>>) }

\* hedp is imported in these; opacplot2 and the output directory vary
ENVIRONMENTS ==
    [opacplot2_available : BOOLEAN, hedp_available : {TRUE}, output_dir_exists : BOOLEAN]

InitConvert ==
    /\ InitAnalyzer
    /\ disk \in CONVERT_FILES
    /\ env \in ENVIRONMENTS
    /\ params = DefaultParams

NextConvert ==
    \/ LoadFile \/ EditForm \/ ConvertFile
    \/ ConvertToCn4 \/ ConversionThread \/ ConversionComplete

SpecConvert == InitConvert /\ [][NextConvert]_vars

EXTERNAL_CALLS == {"OpgSesame", "toEosDict", "writeIonmixFile"}

\* call i of the conversion was made after validate_parameters returned an
\* empty list for the same params
ClaimValidatedBefore(i) ==
    \E j \in 1..(i - 1) :
        /\ calls[j].call = "validate_parameters"
        /\ calls[j].errors = <<>>
        /\ calls[j].params = calls[i].params

ClaimFailedValidation(event) == event.call = "validate_parameters" /\ event.errors # <<>>

\* C12: in every execution of convert_file and of convert_to_cn4 the external
\* calls (decode, toEosDict, writeIonmixFile) come only after
\* validate_parameters returned an empty list for the same params; after a
\* validation error no external call follows and no output file is written.
C12_ExternalCallsOnlyAfterValidation ==
    /\ [](\A i \in 1..Len(calls) :
            /\ calls[i].call \in EXTERNAL_CALLS => ClaimValidatedBefore(i)
            /\ ClaimFailedValidation(calls[i]) => i = Len(calls))
    /\ [][(calls' # <<>> /\ ClaimFailedValidation(calls'[Len(calls')]))
              => outputs' = outputs]_vars

\* the window validated, the form was edited while the thread ran, and the
\* thread validated the params it was given, decoded, converted and wrote
C12_Witness ==
    /\ conversion.phase = "finished" /\ conversion.ret.success
    /\ Len(calls) = 5
    /\ calls[1].call = "validate_parameters" /\ calls[2].call = "validate_parameters"
    /\ calls[4].call = "toEosDict" /\ calls[5].call = "writeIonmixFile"
    /\ calls[5].params # params
    /\ validate_parameters(params) # <<>>
    /\ OutputFile(disk, calls[5].params) \in outputs

\* the external library failed in the conversion whose calls are made: both
\* decodes raised, toEosDict raised or gave an incomplete dictionary, or
\* writeIonmixFile raised
ClaimLibraryFailed(made) ==
    \/ \E i \in 1..Len(made) : made[i].call = "OpgSesame" /\ made[i].outcome = "raises"
                                /\ i = Len(made)
    \/ \E i \in 1..Len(made) : made[i].call = "toEosDict" /\ made[i].outcome # "ok"
    \/ \E i \in 1..Len(made) : made[i].call = "writeIonmixFile"
                                /\ made[i].outcome \in {"raises", "raises_after_writing"}

ClaimFailureReturned(ret) ==
    ret.status = "returned" /\ ~ret.success /\ ret.output_file = NoOutput /\ ret.message # ""

GridResult(eos_type, fig, message) ==
    [op |-> "plot_density_temperature_grid", eos_type |-> eos_type,
     status |-> "returned", fig |-> fig, message |-> message]

\* plot_density_temperature_grid(eos_type)
plot_density_temperature_grid(loaded, rec, available, requested) ==
    LET eos_type == EffectiveType(requested, available)
    IN  IF ~loaded
        THEN GridResult("", FALSE, "No data loaded")
        ELSE IF ~Has(rec, Key(eos_type, "dens")) \/ ~Has(rec, Key(eos_type, "temps"))
        THEN GridResult(eos_type, FALSE, "No density/temperature data found")
        ELSE GridResult(eos_type, TRUE, "Grid visualization with ion density completed")

PlotGrid ==
    /\ \E eos_type \in REQUEST_TYPES :
          result' = plot_density_temperature_grid(data_loaded, eos_data,
                                                  available_eos_types, eos_type)
    /\ AnalysisLeaves /\ UNCHANGED <<disk, params, gui>>

\* the arrays a type may come with
TYPE_FIELDS == {"dens", "temps", "pres", "eint"}

\* one type with the arrays of `fields`: MaxLen densities and temperatures,
\* the first a placeholder, and full grids
PartialType(eos_type, fields) ==
    LET axis == PaddedArray(MaxLen, 1)
    IN  [key \in {Key(eos_type, f) : f \in fields} |->
            IF key \in {Key(eos_type, "pres"), Key(eos_type, "eint")}
            THEN PatternGrid("mixed", axis, axis)
            ELSE axis]

PartialRecords ==
    { PartialType("total", total_fields) @@ PartialType("ion", ion_fields) :
        total_fields \in SUBSET TYPE_FIELDS, ion_fields \in SUBSET TYPE_FIELDS }

PartialFiles ==
    { File("partial.ses", TRUE, TRUE, TRUE, <<[id |-> 7592, rec |-> r]>>) : r \in PartialRecords }

InitPartial == InitAnalyzer /\ disk \in PartialFiles /\ params = DefaultParams /\ env = FullEnv

NextPartial == LoadSesameFile \/ PlotInternalEnergy \/ PlotPressure \/ PlotGrid

SpecPartial == InitPartial /\ [][NextPartial]_vars

\* the loaded record lacks one of the arrays of the type the operation ran on
ClaimLacks(fields) ==
    \E f \in fields : Key(result.eos_type, f) \notin DOMAIN eos_data

\* C14: when the type a pressure or internal-energy analysis operates on lacks
\* its density, temperature or value array, the operation returns (None, an
\* incomplete-data message, None) and does not raise; the grid plot returns
\* (None, message) when density or temperature is missing.
C14_MissingArrayIsReported ==
    /\ (data_loaded /\ result.op = "plot_internal_energy_distribution"
            /\ ClaimLacks({"dens", "temps", "eint"})) =>
          /\ result.status = "returned" /\ ~result.fig
          /\ result.message = "Incomplete data" /\ result.min_temp = None
    /\ (data_loaded /\ result.op = "plot_pressure_distribution"
            /\ ClaimLacks({"dens", "temps", "pres"})) =>
          /\ result.status = "returned" /\ ~result.fig
          /\ result.message = "Incomplete data" /\ result.min_temp = None
    /\ (data_loaded /\ result.op = "plot_density_temperature_grid"
            /\ ClaimLacks({"dens", "temps"})) =>
          /\ result.status = "returned" /\ ~result.fig
          /\ result.message = "No density/temperature data found"

\* `ion` is the only usable type and has no pressure array: the pressure
\* analysis asked for `total` fell back to `ion` and reported it incomplete
C14_Witness ==
    /\ data_loaded /\ available_eos_types = <<"ion">>
    /\ result.op = "plot_pressure_distribution" /\ result.eos_type = "ion"
    /\ Key("ion", "pres") \notin DOMAIN eos_data
    /\ Key("total", "pres") \in DOMAIN eos_data
    /\ result.message = "Incomplete data" /\ result.min_temp = None

(***************************************************************************)
(* Reloading: the path handed to load_sesame_file comes to hold one file   *)
(* after another.                                                          *)
(***************************************************************************)
\* a material whose only arrays are the axes of one type
AxesMaterial(id, eos_type, n_placeholders) ==
    [id |-> id,
     rec |-> [key \in {Key(eos_type, "dens"), Key(eos_type, "temps")} |->
                 PaddedArray(MaxLen, n_placeholders)]]

RELOAD_FILES ==
    { File("missing.ses", FALSE, FALSE, FALSE, <<>>),
      File("garbage.ses", TRUE, FALSE, FALSE, <<>>),
      File("empty.ses", TRUE, TRUE, TRUE, <<>>),
      File("total.ses", TRUE, TRUE, TRUE, <<AxesMaterial(7592, "total", 1)>>),
      File("ion.ses", TRUE, FALSE, TRUE, <<AxesMaterial(3720, "ion", 0)>>),
      File("two.ses", TRUE, TRUE, TRUE,
           <<AxesMaterial(2140, "ele", 0), AxesMaterial(7592, "total", 1)>>),
      File("short.ses", TRUE, TRUE, TRUE, <<AxesMaterial(5760, "cc", MaxLen - MIN_VALID)>>) }

\* another file is chosen in the file dialog
SelectFile ==
    /\ disk' \in RELOAD_FILES \ {disk}
    /\ UNCHANGED <<params, analyzer, result, gui>>

InitReload == InitAnalyzer /\ disk \in RELOAD_FILES /\ params = DefaultParams /\ env = FullEnv

NextReload == SelectFile \/ LoadSesameFile

SpecReload == InitReload /\ [][NextReload]_vars

\* C15: after any sequence of load_sesame_file calls, sesame_data,
\* material_id, eos_data and available_eos_types come from one and the same
\* file, the most recent successfully loaded one (a failed load changes none
\* of them).
C15_RecordReplacedWholesale ==
    data_loaded =>
        /\ sesame_data.materials # <<>>
        /\ material_id = sesame_data.materials[1].id
        /\ eos_data = sesame_data.materials[1].rec
        /\ available_eos_types = analyze_eos_types(sesame_data.materials[1].rec)

(***************************************************************************)
(* get_material_info, and all the analysis operations side by side.        *)
(***************************************************************************)
\* get_material_info(): {} before a load, else the scalars and the types
get_material_info(loaded, rec, available, mid) ==
    IF ~loaded THEN [op |-> "get_material_info", known |-> FALSE]
    ELSE [op |-> "get_material_info", known |-> TRUE, material_id |-> mid,
          abar |-> Get(rec, "abar", NA), zmax |-> Get(rec, "zmax", NA),
          rho0 |-> Get(rec, "rho0", NA), bulkmod |-> Get(rec, "bulkmod", NA),
          available_types |-> available]

GetMaterialInfo ==
    /\ result' = get_material_info(data_loaded, eos_data, available_eos_types, material_id)
    /\ AnalysisLeaves /\ UNCHANGED <<disk, params, gui>>

FrameRecords ==
    { PartialType("total", fields) @@ Field("abar", abar) :
        fields \in {TYPE_FIELDS, {"dens", "temps", "pres"}},
        abar \in Options({Num(651, 100), PyNone}) }

FrameFiles ==
    { File("frame.ses", TRUE, TRUE, TRUE, <<[id |-> 7592, rec |-> r]>>) : r \in FrameRecords }

\* the forms validated in between: a valid one, and one breaking every rule
FRAME_FORMS ==
    { DefaultParams,
      [Znum |-> <<"0">>, Xfracs |-> <<"0.5", "0.4">>, tabnum |-> "x", Tmin |-> "0"] }

InitFrame ==
    /\ InitAnalyzer /\ env = FullEnv
    /\ disk \in FrameFiles
    /\ params \in FRAME_FORMS

NextFrame ==
    \/ LoadSesameFile \/ GenerateReport \/ GetMaterialInfo \/ PlotInternalEnergy
    \/ PlotPressure \/ CalculateIonDensities \/ ValidateParameters

SpecFrame == InitFrame /\ [][NextFrame]_vars

ANALYSIS_OPS ==
    {"generate_report", "get_material_info", "plot_internal_energy_distribution",
     "plot_pressure_distribution", "_calculate_ion_densities", "validate_parameters"}

\* C16: generate_report, get_material_info, the two scans,
\* _calculate_ion_densities and validate_parameters leave the analyzer's
\* material_id, eos_data (the arrays it holds), available_eos_types and
\* data_loaded and the params mapping unchanged.
C16_AnalysisLeavesStateUnchanged ==
    [][result'.op \in ANALYSIS_OPS =>
          /\ material_id' = material_id /\ eos_data' = eos_data
          /\ available_eos_types' = available_eos_types /\ data_loaded' = data_loaded
          /\ sesame_data' = sesame_data /\ params' = params]_vars

\* a report was made of the loaded record, and the analyzer still holds the
\* record, the id and the usable types of the file
C16_Witness ==
    /\ result.op = "generate_report" /\ result.status = "returned"
    /\ data_loaded /\ material_id = disk.materials[1].id
    /\ eos_data = disk.materials[1].rec
    /\ available_eos_types = <<"total">>
    /\ Key("total", "pres") \in DOMAIN eos_data

\* the decimals the report prints a scalar with
ClaimPlaces(key) == IF key = "zmax" THEN 1 ELSE 3

\* the record does not hold the scalar (the key is absent, or is 'N/A')
ClaimUnknown(key) == key \notin DOMAIN eos_data \/ eos_data[key].tag = "NA"

\* printed is value rounded to the given decimals: they differ by at most
\* half a unit of the last decimal
ClaimPrintsValue(printed, value, places) ==
    /\ printed.tag = "num" /\ printed.places = places
    /\ 2 * Abs(printed.digits * value.d - value.n * Pow10(places)) <= value.d

\* C17: in the material-properties section each of abar, zmax and rho0 is
\* printed as N/A exactly when the record does not hold it, and as its own
\* value (abar and rho0 with 3 decimals, zmax with 1) otherwise; an unknown
\* scalar is never printed as a number.
C17_UnknownScalarPrintedNA ==
    ReportMade =>
        \A key \in {"abar", "zmax", "rho0"} :
            IF ClaimUnknown(key) THEN result[key] = PrintedNA
            ELSE ClaimPrintsValue(result[key], eos_data[key], ClaimPlaces(key))

\* abar is unknown and printed N/A, zmax 3.5 is printed 3.5, rho0 1 as 1.000
C17_Witness ==
    /\ ReportMade
    /\ "abar" \notin DOMAIN eos_data /\ result.abar = PrintedNA
    /\ "zmax" \in DOMAIN eos_data /\ eos_data["zmax"] = Num(7, 2)
    /\ result.zmax = [tag |-> "num", digits |-> 35, places |-> 1]
    /\ "rho0" \in DOMAIN eos_data /\ result.rho0 = [tag |-> "num", digits |-> 1000, places |-> 3]

\* the claim's primary type: `total` if usable, else the first usable type
ClaimPrimaryType ==
    IF \E i \in 1..Len(available_eos_types) : available_eos_types[i] = "total"
    THEN "total" ELSE available_eos_types[1]

\* x is the ion-to-mass ratio 1 / (abar * 1.66054e-24) of the record
ClaimIsRatio(x) ==
    RatMul(x, RatMul(Rat(eos_data["abar"].n, eos_data["abar"].d, 0),
                     Rat(166054, 100000, -24))) = Rat(1, 1, 0)

\* C18: the report's ion-density analysis is computed over the primary type:
\* `total` when `total` is a usable type, otherwise the first type of
\* available_eos_types.
C18_IonAnalysisOverPrimaryType ==
    (ReportMade /\ result.ion.known) =>
        /\ result.ion.main_eos = ClaimPrimaryType
        /\ result.ion.ratio_range.some
        /\ ClaimIsRatio(result.ion.ratio_range.v[1])
        /\ ClaimIsRatio(result.ion.ratio_range.v[2])

\* `ion` comes first in the list, `total` is usable: the analysis ran on `total`
C18_Witness ==
    /\ ReportMade /\ result.ion.known
    /\ available_eos_types = <<"ion", "total">>
    /\ result.ion.main_eos = "total"
    /\ result.ion.ratio_range.some

\* the entries > 1e-10 of a stored array
ClaimValidCount(key) ==
    Cardinality({i \in DOMAIN eos_data[key] : eos_data[key][i] > PLACEHOLDER_MAX})

\* a usable type: both arrays present, more than 5 valid entries in each
ClaimUsable(eos_type) ==
    /\ Key(eos_type, "dens") \in DOMAIN eos_data
    /\ Key(eos_type, "temps") \in DOMAIN eos_data
    /\ ClaimValidCount(Key(eos_type, "dens")) > 5
    /\ ClaimValidCount(Key(eos_type, "temps")) > 5

RECURSIVE ClaimPointsOver(_)
ClaimPointsOver(types) ==
    IF types = {} THEN 0
    ELSE LET t == CHOOSE u \in types : TRUE
         IN  (IF ClaimUsable(t)
              THEN ClaimValidCount(Key(t, "dens")) * ClaimValidCount(Key(t, "temps"))
              ELSE 0) + ClaimPointsOver(types \ {t})

\* C19: the report's total of effective data points is the sum, over every
\* usable type, of (densities > 1e-10) times (temperatures > 1e-10) of that
\* type; types that are not usable contribute nothing.
C19_TotalPointsIsSumOverUsableTypes ==
    ReportMade =>
        result.total_points = ClaimPointsOver({"ioncc", "ele", "ion", "total", "cc"})

\* two usable types of different sizes: the total is the sum of both products
C19_Witness ==
    /\ ReportMade
    /\ available_eos_types = <<"ion", "total">>
    /\ ClaimValidCount(Key("ion", "dens")) # ClaimValidCount(Key("total", "dens"))
    /\ result.total_points =
          ClaimValidCount(Key("ion", "dens")) * ClaimValidCount(Key("ion", "temps"))
          + ClaimValidCount(Key("total", "dens")) * ClaimValidCount(Key("total", "temps"))

\* a type present but not usable (5 valid densities) next to a usable one
C19_WitnessUnusable ==
    /\ ReportMade
    /\ available_eos_types = <<"total">>
    /\ Key("ion", "dens") \in DOMAIN eos_data /\ ~ClaimUsable("ion")
    /\ result.total_points > 0

(***************************************************************************)
(* Repeated scans: a caller runs the scans again and again on one loaded   *)
(* record, other analysis operations in between, and notes for each method *)
(* and type the threshold index and temperature it was handed.             *)
(***************************************************************************)
Noted(scan) == [idx |-> scan.idx, temp |-> scan.temp]

\* a scan method called, its outcome noted when the scan ran
ObservedScan(r) ==
    /\ result' = r
    /\ seen' = IF r.scan.ran THEN (<<r.op, r.eos_type>> :> Noted(r.scan)) @@ seen ELSE seen
    /\ AnalysisLeaves /\ UNCHANGED <<disk, params, window, elsewhere>>

ObservedInternalEnergy ==
    \E eos_type \in REQUEST_TYPES :
        ObservedScan(plot_internal_energy_distribution(data_loaded, eos_data,
                                                       available_eos_types, eos_type))

ObservedPressure ==
    \E eos_type \in REQUEST_TYPES :
        ObservedScan(plot_pressure_distribution(data_loaded, eos_data,
                                                available_eos_types, eos_type))

\* `total` with both grids, with or without a usable `ion` beside it
RepeatRecords ==
    { LET total == PaddedArray(MaxLen, 1)
          ion == PaddedArray(MaxLen, 0)
      IN  (Key("total", "dens") :> total) @@ (Key("total", "temps") :> total)
          @@ (Key("total", "pres") :> PatternGrid(pres, total, total))
          @@ (Key("total", "eint") :> PatternGrid(eint, total, total))
          @@ (IF with_ion
              THEN (Key("ion", "dens") :> ion) @@ (Key("ion", "temps") :> ion)
                   @@ (Key("ion", "eint") :> PatternGrid(pres, ion, ion))
              ELSE NoRecord)
          @@ Field("abar", Some(Num(651, 100))) :
        pres \in GRID_PATTERNS, eint \in GRID_PATTERNS, with_ion \in BOOLEAN }

RepeatFiles ==
    { File("repeat.ses", TRUE, TRUE, TRUE, <<[id |-> 7592, rec |-> r]>>) : r \in RepeatRecords }

InitRepeat == InitAnalyzer /\ disk \in RepeatFiles /\ params = DefaultParams /\ env = FullEnv

NextRepeat ==
    \/ LoadSesameFile \/ ObservedInternalEnergy \/ ObservedPressure
    \/ GenerateReport \/ GetMaterialInfo \/ PlotGrid \/ ValidateParameters

SpecRepeat == InitRepeat /\ [][NextRepeat]_vars

NoPositiveEnergy == Label("No positive energy found", 0)

Temperature(v) == Label("eV", v)

\* what the handler did: a warning box, an error box, or the plot displayed
Analyzed(outcome, plot) == [op |-> "analyze_internal_energy", outcome |-> outcome, plot |-> plot]

\* SESAMEAnalysisGUI.analyze_internal_energy; eos_type is the value of the
\* type combobox
AnalyzeInternalEnergy ==
    /\ IF ~data_loaded
       THEN /\ result' = Analyzed("warning", [op |-> "none"])
            /\ UNCHANGED min_temp_label
       ELSE \E eos_type \in REQUEST_TYPES :
              LET r == plot_internal_energy_distribution(data_loaded, eos_data,
                                                         available_eos_types, eos_type)
              IN  IF r.status = "raised" \/ ~r.fig
                  THEN /\ result' = Analyzed("error", r)
                       /\ UNCHANGED min_temp_label
                  ELSE /\ result' = Analyzed("displayed", r)
                       /\ min_temp_label' = IF r.min_temp.some
                                            THEN Temperature(r.min_temp.v)
                                            ELSE NoPositiveEnergy
    /\ AnalysisLeaves
    /\ UNCHANGED <<disk, params, window, seen, data_display, launch, threads>>

InitLabel == InitAnalyzer /\ disk \in RepeatFiles /\ params = DefaultParams /\ env = FullEnv

NextLabel == LoadSesameFile \/ AnalyzeInternalEnergy

SpecLabel == InitLabel /\ [][NextLabel]_vars

\* the analyzed grid holds a positive value at a valid (density, temperature)
\* point
ClaimPositiveEnergyAt(eos_type) ==
    LET densities == eos_data[Key(eos_type, "dens")]
        temperatures == eos_data[Key(eos_type, "temps")]
        grid == eos_data[Key(eos_type, "eint")]
    IN  \E d \in 1..Len(densities), t \in 1..Len(temperatures) :
            /\ densities[d] > PLACEHOLDER_MAX /\ temperatures[t] > PLACEHOLDER_MAX
            /\ grid[d][t] > 0

\* C21: when the analyzed internal-energy grid has no positive value at any
\* valid point, analyze_internal_energy shows 'No positive energy found'; the
\* label shows a temperature only when positive energy was found.
C21_NoPositiveEnergyIsShown ==
    (result.op = "analyze_internal_energy" /\ result.outcome = "displayed") =>
        /\ ~ClaimPositiveEnergyAt(result.plot.eos_type) => min_temp_label = NoPositiveEnergy
        /\ min_temp_label.text = "eV" => ClaimPositiveEnergyAt(result.plot.eos_type)

(***************************************************************************)
(* The launcher: launch.py main, the installer setup.py it runs, and the   *)
(* dependency check main.py makes when it is imported by launch_gui.       *)
(***************************************************************************)
\* installer runs of one user start the model follows
MaxInstalls == 4

\* ensure_dependencies: hedp alone missing lets the launcher proceed
ensure_dependencies(modules) == modules.opacplot2 /\ modules.scientific

\* setup.py as a subprocess: what can be imported afterwards and the exit
\* status.  A package that was missing may or may not have been installed;
\* a failed opacplot2 installation ends the installer before hedp is tried;
\* the exit status is 0 exactly when opacplot2 can be imported at the end.
SetupOutcomes(modules) ==
    { [modules |-> Modules(opacplot2, hedp, scientific), ok |-> opacplot2] :
        opacplot2 \in {TRUE} \cup {modules.opacplot2},
        hedp \in {TRUE} \cup {modules.hedp},
        scientific \in {TRUE} \cup {modules.scientific} }
    \ { o \in [modules : [opacplot2 : BOOLEAN, hedp : BOOLEAN, scientific : BOOLEAN],
               ok : BOOLEAN] :
          ~o.modules.opacplot2 /\ o.modules.hedp /\ ~modules.hedp }

Exited == "exited"

\* os.execv: the program starts again from launch.py main with the argv given
Restart(marker, installs, modules) ==
    Launch("launcher", marker, launch.after_install \/ marker, installs,
           launch.restarts + 1, modules)

At(pc) == [launch EXCEPT !.pc = pc]

\* launch.py main up to the point where it calls launch_gui, exits or
\* re-executes itself; response is what the user types
LauncherMain ==
    /\ launch.pc = "launcher"
    /\ LET restarted == launch.marker
           cleaned == [launch EXCEPT !.marker = FALSE]
       IN  IF ensure_dependencies(launch.modules)
           THEN launch' = [cleaned EXCEPT !.pc = "importing_main"]
           ELSE IF restarted
           THEN \E response \in {"y", "n"} :
                  launch' = [cleaned EXCEPT !.pc = IF response = "y" THEN "importing_main"
                                                   ELSE Exited]
           ELSE \E response \in {"y", "n", "q"} :
                  IF response = "y"
                  THEN /\ launch.installs < MaxInstalls
                       /\ \E o \in SetupOutcomes(launch.modules) :
                            launch' = IF o.ok
                                      THEN Restart(TRUE, launch.installs + 1, o.modules)
                                      ELSE [cleaned EXCEPT !.pc = Exited,
                                                           !.installs = @ + 1,
                                                           !.modules = o.modules]
                  ELSE launch' = [cleaned EXCEPT !.pc = IF response = "n"
                                                        THEN "importing_main" ELSE Exited]
    /\ result' = [op |-> "launch.main"]
    /\ UNCHANGED <<disk, params, analyzer, window, seen, panels, threads>>

\* launch_gui importing main: main.py imports matplotlib (an ImportError is
\* caught by launch_gui, which exits) and then runs check_dependencies;
\* answer is the button of its dialog.  sys.argv is the launcher's, the
\* marker removed.
check_dependencies ==
    /\ launch.pc = "importing_main"
    /\ IF ~launch.modules.scientific
       THEN launch' = At(Exited)
       ELSE IF launch.modules.opacplot2 /\ launch.modules.hedp
       THEN launch' = At("gui")
       ELSE \E answer \in {"yes", "no", "cancel"} :
              IF answer = "yes"
              THEN /\ launch.installs < MaxInstalls
                   /\ \E o \in SetupOutcomes(launch.modules) :
                        launch' = IF o.ok
                                  THEN Restart(launch.marker, launch.installs + 1, o.modules)
                                  ELSE [launch EXCEPT !.pc = Exited, !.installs = @ + 1,
                                                      !.modules = o.modules]
              ELSE launch' = At(IF answer = "no" THEN "gui" ELSE Exited)
    /\ result' = [op |-> "check_dependencies"]
    /\ UNCHANGED <<disk, params, analyzer, window, seen, panels, threads>>

\* the user starts launch.py, with any of the modules missing
InitLaunch ==
    /\ sesame_data = NoSesame /\ eos_data = NoRecord /\ material_id = NoMaterial
    /\ available_eos_types = <<>> /\ data_loaded = FALSE
    /\ result = [op |-> "init"]
    /\ current_file = NoFile /\ conversion = Idle /\ calls = <<>> /\ outputs = {}
    /\ seen = <<>> /\ min_temp_label = NotCalculated /\ data_display = NoDisplay
    /\ workers = <<>> /\ after_queue = <<>> /\ delivered = <<>>
    /\ disk = File("none.ses", FALSE, FALSE, FALSE, <<>>)
    /\ params = DefaultParams /\ env = FullEnv
    /\ \E modules \in [opacplot2 : BOOLEAN, hedp : BOOLEAN, scientific : BOOLEAN] :
          launch = Launch("launcher", FALSE, FALSE, 0, 0, modules)

NextLaunch == LauncherMain \/ check_dependencies

SpecLaunch == InitLaunch /\ [][NextLaunch]_vars

\* C22: once launch.py has been restarted with --after-install, nothing runs
\* the installer again or re-executes the program: one user start leads to
\* at most one installation and one restart.
C22_OneInstallOneRestart ==
    launch.after_install => (launch.installs <= 1 /\ launch.restarts <= 1)

RECURSIVE InstallOne(_, _)

(***************************************************************************)
(* The installer: setup.py install_dependencies.  pip names, for each      *)
(* command the installer may run, whether it succeeds; found is what the   *)
(* installer finds installed when it starts.                               *)
(***************************************************************************)
BASIC_PACKAGES == <<"numpy", "scipy", "matplotlib", "tables", "numba", "pandas">>

\* run_command: True when the command succeeds; a failed command gives False
\* only when it is critical
run_command(succeeds, critical) == IF succeeds THEN TRUE ELSE ~critical

\* one command handed to run_command
Command(cmd) == [kind |-> "command", text |-> cmd]

\* one message printed by install_dependencies itself
Message(text) == [kind |-> "message", text |-> text]

InstallOne(packages, i) ==
    IF i > Len(packages) THEN <<>>
    ELSE <<Command("pip install " \o packages[i])>> \o InstallOne(packages, i + 1)

\* Step 1, lines 91-98
BasicRequirements(pip) ==
    <<Command("pip install -r requirements.txt")>>
    \o (IF ~run_command(pip.requirements, FALSE)
        THEN <<Message("Some basic requirements failed to install, trying individual installation...")>>
             \o InstallOne(BASIC_PACKAGES, 1)
        ELSE <<>>)

\* Step 3, lines 110-161: scipy and Cython as found ("old", "new" or
\* "missing"), then the scipy downgrade and the hedp installation
HedpStep(found, pip) ==
    LET scipy_needs_downgrade == found.scipy \in {"new", "missing"}
    IN  (IF found.cython \in {"new", "missing"}
         THEN <<Command("pip install \"cython<3.0\"")>> ELSE <<>>)
        \o (IF scipy_needs_downgrade
            THEN <<Command("pip install \"scipy<=1.13.0\"")>>
                 \o (IF ~run_command(pip.scipy, FALSE)
                     THEN <<Message("Failed to downgrade scipy, hedp may not work properly")>>
                     ELSE <<>>)
            ELSE <<>>)
        \o <<Command("pip install git+https://github.com/luli/hedp.git")>>
        \o (IF ~run_command(pip.hedp, FALSE)
            THEN <<Message("hedp installation failed, but this won't prevent GUI from working")>>
            ELSE <<>>)

\* install_dependencies: what it ran and printed, and what it returned
install_dependencies(found, pip) ==
    LET needs_opacplot2 == ~found.opacplot2
        needs_hedp == ~found.hedp
        basic == BasicRequirements(pip)
    IN  IF needs_opacplot2 /\ ~run_command(pip.opacplot2, TRUE)
        THEN [log |-> basic
                      \o <<Command("pip install git+https://github.com/flash-center/opacplot2.git"),
                           Message("CRITICAL: Failed to install opacplot2. GUI will not function.")>>,
              returned |-> FALSE]
        ELSE [log |-> basic
                      \o (IF needs_opacplot2
                          THEN <<Command("pip install git+https://github.com/flash-center/opacplot2.git")>>
                          ELSE <<>>)
                      \o (IF needs_hedp THEN HedpStep(found, pip) ELSE <<>>),
              \* the verification imports opacplot2 again
              returned |-> found.opacplot2 \/ pip.functional]

FOUND == [opacplot2 : BOOLEAN, hedp : BOOLEAN,
          scipy : {"old", "new", "missing"}, cython : {"old", "new", "missing"}]

\* functional: the opacplot2 that was installed can be imported
PIP == [requirements : BOOLEAN, opacplot2 : BOOLEAN, scipy : BOOLEAN, hedp : BOOLEAN,
        functional : BOOLEAN]

RunSetup ==
    /\ \E found \in FOUND, pip \in PIP :
          LET r == install_dependencies(found, pip)
          IN  result' = [op |-> "install_dependencies", found |-> found, pip |-> pip,
                         log |-> r.log, returned |-> r.returned]
    /\ UNCHANGED <<disk, params, analyzer, gui>>

InitSetup ==
    /\ InitAnalyzer /\ disk = File("none.ses", FALSE, FALSE, FALSE, <<>>)
    /\ params = DefaultParams /\ env = FullEnv

NextSetup == RunSetup

SpecSetup == InitSetup /\ [][NextSetup]_vars

ClaimLogged(entry) == \E i \in 1..Len(result.log) : result.log[i] = entry

\* the installer ran the command
ClaimRan(cmd) == ClaimLogged([kind |-> "command", text |-> cmd])

ClaimPrinted(text) == ClaimLogged([kind |-> "message", text |-> text])

\* C23: when 'pip install -r requirements.txt' fails the installer installs
\* numpy, scipy, matplotlib, tables, numba and pandas one by one; a failed
\* scipy downgrade and a failed hedp installation each print their warning.
C23_FailedInstallsFallBackOrWarn ==
    result.op = "install_dependencies" =>
        /\ ~result.pip.requirements =>
              \A pkg \in {"numpy", "scipy", "matplotlib", "tables", "numba", "pandas"} :
                  ClaimRan("pip install " \o pkg)
        /\ (ClaimRan("pip install \"scipy<=1.13.0\"") /\ ~result.pip.scipy) =>
              ClaimPrinted("Failed to downgrade scipy, hedp may not work properly")
        /\ (ClaimRan("pip install git+https://github.com/luli/hedp.git") /\ ~result.pip.hedp) =>
              ClaimPrinted("hedp installation failed, but this won't prevent GUI from working")

(***************************************************************************)
(* convert_to_cn4 with the steps of its worker thread told apart: the      *)
(* thread evaluates self.current_file and calls convert_file, every        *)
(* progress_callback and the completion are handed to root.after(0, ...),  *)
(* and the interactive thread runs the scheduled callbacks in between its  *)
(* other handlers.                                                         *)
(***************************************************************************)
\* conversions started in one run of the window
MaxConversions == 2

\* root.after(0, callback) first in line instead of last
ScheduleFirst(queue, callback) == <<callback>> \o queue

\* root.after(0, callback): callbacks due at the same time run in the order
\* they were scheduled
Schedule(queue, callback) == Append(queue, callback)

\* lambda: self.update_conversion_log(message), scheduled by thread `by`
ProgressCallback(by, message) == [by |-> by, kind |-> "progress", text |-> message]

\* lambda: self.conversion_complete(success, output_file, message)
CompleteCallback(by, ret) == [by |-> by, kind |-> "complete", text |-> ret.message]

\* the progress messages of convert_file before its last lines, in order
ProgressMessages(available, file, output_dir_exists, p, lib) ==
    IF ~available \/ ~file.exists \/ ~output_dir_exists
       \/ ValidationFails(ValidateCall(p).errors)
    THEN <<>>
    ELSE <<"Loading SESAME file...">>
         \o (IF ~(file.double_ok \/ file.single_ok) \/ file.materials = <<>>
             THEN <<>>
             ELSE <<"Converting material...">>
                  \o (IF ParseRaises(p)
                      THEN <<>>
                      ELSE <<"Performing conversion...">>
                           \o (IF lib.eos = "raises"
                               THEN <<>>
                               ELSE <<"Extracting ion number density from EoS data...">>)))

\* the files a path may name while conversions run
WORKER_FILES ==
    { File("first.ses", TRUE, TRUE, TRUE, <<[id |-> 7592, rec |-> [k \in {"abar"} |-> Num(651, 100)]]>>),
      File("second.ses", TRUE, FALSE, TRUE, <<[id |-> 3720, rec |-> [k \in {"abar"} |-> Num(10, 1)]]>>) }

\* what is at a path
FileAt(path) ==
    IF \E f \in WORKER_FILES : f.name = path
    THEN CHOOSE f \in WORKER_FILES : f.name = path
    ELSE File(path, FALSE, FALSE, FALSE, <<>>)

\* the locals of one conversion_thread: the params and the output directory
\* bound when the handler ran, the input file it passed to convert_file, the
\* library's behaviour in this call, the messages convert_file has still to
\* report.  clicked is current_file as it was when the handler ran.
Worker(pc, p, clicked, input_file, lib, pending) ==
    [pc |-> pc, params |-> p, clicked |-> clicked, input_file |-> input_file,
     lib |-> lib, pending |-> pending]

NoLibrary == [eos |-> "ok", write |-> "written"]

\* the library in the conversions followed step by step: it converts and
\* writes, or toEosDict raises
WORKER_LIBRARY == {NoLibrary, [eos |-> "raises", write |-> "nothing"]}

\* SESAMEAnalysisGUI.convert_to_cn4 up to thread.start()
StartConversion ==
    /\ Len(workers) < MaxConversions
    /\ LET validation == ValidateCall(params)
       IN  IF current_file = NoFile
           THEN /\ result' = Handled("No SESAME file loaded")
                /\ UNCHANGED <<workers, calls>>
           ELSE IF ValidationFails(validation.errors)
           THEN /\ result' = Handled("Parameter validation failed")
                /\ calls' = <<validation>>
                /\ UNCHANGED workers
           ELSE IF ~env.output_dir_exists
           THEN /\ result' = Handled("Output directory does not exist")
                /\ calls' = <<validation>>
                /\ UNCHANGED workers
           ELSE /\ result' = Handled("Starting conversion")
                /\ workers' = Append(workers, Worker("started", params, current_file,
                                                     NoFile, NoLibrary, <<>>))
                /\ calls' = <<validation>>
    /\ UNCHANGED <<disk, params, analyzer, current_file, conversion, outputs, env, seen,
                   panels, launch, after_queue, delivered>>

\* conversion_thread: self.current_file is evaluated and convert_file is
\* entered
WorkerCalls(i) ==
    /\ workers[i].pc = "started"
    /\ \E lib \in WORKER_LIBRARY :
          workers' = [workers EXCEPT ![i] =
              Worker("converting", @.params, @.clicked, current_file, lib,
                     ProgressMessages(get_converter_status(env).conversion_possible, FileAt(current_file),
                                      env.output_dir_exists, @.params, lib))]
    /\ UNCHANGED <<disk, params, analyzer, result, window, seen, panels, launch,
                   after_queue, delivered>>

\* progress_callback(message) inside convert_file
WorkerProgress(i) ==
    /\ workers[i].pc = "converting" /\ workers[i].pending # <<>>
    /\ after_queue' = Schedule(after_queue, ProgressCallback(i, Head(workers[i].pending)))
    /\ workers' = [workers EXCEPT ![i].pending = Tail(@)]
    /\ UNCHANGED <<disk, params, analyzer, result, window, seen, panels, launch, delivered>>

\* the end of convert_file (the write, the check of the output file, the last
\* progress message) and the scheduling of conversion_complete
WorkerReturns(i) ==
    /\ workers[i].pc = "converting" /\ workers[i].pending = <<>>
    /\ LET w == workers[i]
           r == convert_file(get_converter_status(env).conversion_possible, FileAt(w.input_file),
                             env.output_dir_exists, outputs, w.params, w.lib)
           reported == IF r.ret.success
                       THEN Schedule(after_queue,
                                     ProgressCallback(i, "Conversion completed successfully"))
                       ELSE after_queue
       IN  /\ after_queue' = Schedule(reported, CompleteCallback(i, r.ret))
           /\ outputs' = IF r.wrote
                         THEN outputs \cup {OutputFile(FileAt(w.input_file), w.params)}
                         ELSE outputs
           /\ calls' = r.calls
           /\ workers' = [workers EXCEPT ![i].pc = "done"]
    /\ UNCHANGED <<disk, params, analyzer, result, current_file, conversion, env, seen,
                   panels, launch, delivered>>

ConversionWorker == \E i \in 1..Len(workers) : WorkerCalls(i) \/ WorkerProgress(i) \/ WorkerReturns(i)

\* the event loop of the interactive thread runs the oldest scheduled
\* callback: update_conversion_log(message) or conversion_complete(...)
RunCallback ==
    /\ after_queue # <<>>
    /\ delivered' = Append(delivered, Head(after_queue))
    /\ after_queue' = Tail(after_queue)
    /\ result' = [op |-> IF Head(after_queue).kind = "complete" THEN "conversion_complete"
                         ELSE "update_conversion_log",
                  message |-> Head(after_queue).text]
    /\ UNCHANGED <<disk, params, analyzer, window, seen, panels, launch, workers>>

\* the user picks another file in the dialog of load_file
PickFile ==
    /\ disk' \in WORKER_FILES \ {disk}
    /\ UNCHANGED <<params, analyzer, result, gui>>

InitWorker ==
    /\ InitAnalyzer /\ disk \in WORKER_FILES /\ params = DefaultParams /\ env = FullEnv

\* conversions and the event loop, one file on disk
NextQueue == LoadFile \/ StartConversion \/ ConversionWorker \/ RunCallback

SpecQueue == InitWorker /\ [][NextQueue]_vars

\* conversions and loads of other files
NextWorker == PickFile \/ LoadFile \/ StartConversion \/ ConversionWorker

SpecWorker == InitWorker /\ [][NextWorker]_vars

\* the callbacks of thread i of one kind, among those run
ClaimRun(i, kind) ==
    {k \in 1..Len(delivered) : delivered[k].by = i /\ delivered[k].kind = kind}

\* the callbacks of thread i still scheduled
ClaimScheduled(i) == {k \in 1..Len(after_queue) : after_queue[k].by = i}

\* conversion_complete has run once for a thread that has returned and has
\* nothing scheduled, and never more than once
ClaimCompletedOnce ==
    \A i \in 1..Len(workers) :
        /\ Cardinality(ClaimRun(i, "complete")) <= 1
        /\ (workers[i].pc = "done" /\ ClaimScheduled(i) = {}) =>
              Cardinality(ClaimRun(i, "complete")) = 1

\* when conversion_complete runs for a thread, the thread has no progress
\* message left to report, scheduled, or run later
ClaimCompletedLast ==
    \A k \in 1..Len(delivered) :
        delivered[k].kind = "complete" =>
            LET i == delivered[k].by
            IN  /\ workers[i].pc = "done"
                /\ \A q \in ClaimScheduled(i) : after_queue[q].kind # "progress"
                /\ \A j \in ClaimRun(i, "progress") : j < k

\* a step of a worker thread
ClaimWorkerStep == \E i \in 1..Len(workers) : workers'[i] # workers[i]

\* C24: the worker thread never touches GUI state directly; progress messages
\* and the completion are delivered as callbacks on the interactive thread;
\* conversion_complete runs exactly once per started conversion, after all
\* progress messages of that conversion.
C24_CompletionOnceAfterProgress ==
    /\ [](ClaimCompletedOnce /\ ClaimCompletedLast)
    /\ [][ClaimWorkerStep =>
             UNCHANGED <<delivered, result, current_file, params, panels, analyzer>>]_vars

\* two conversions ran at the same time and both were completed: a message
\* of the second was logged between two callbacks of the first
C24_Witness ==
    /\ Len(workers) = 2 /\ after_queue = <<>>
    /\ \A i \in 1..2 : workers[i].pc = "done" /\ ClaimRun(i, "progress") # {}
                       /\ ClaimRun(i, "complete") # {}
    /\ \E k, j, l \in 1..Len(delivered) :
          k < j /\ j < l /\ delivered[k].by = 1 /\ delivered[j].by = 2 /\ delivered[l].by = 1

\* C25: under every interleaving of the worker thread with later load_file
\* calls, the input file passed to convert_file is the value current_file had
\* when the user pressed 'Convert to CN4'.
C25_ConvertsFileOfTheClick ==
    \A i \in 1..Len(workers) :
        workers[i].pc # "started" => workers[i].input_file = workers[i].clicked

(***************************************************************************)
(* The type a plot falls back to.  Files whose `total` arrays start with   *)
(* any number of placeholders, so that `total` is usable in some and not   *)
(* in others, with or without a usable `ion`.                              *)
(***************************************************************************)
FallbackRecords ==
    { LET total == PaddedArray(MaxLen, n_placeholders)
          ion == PaddedArray(MaxLen, 0)
      IN  (Key("total", "dens") :> total) @@ (Key("total", "temps") :> total)
          @@ (Key("total", "pres") :> PatternGrid(pattern, total, total))
          @@ (Key("total", "eint") :> PatternGrid(pattern, total, total))
          @@ (IF with_ion
              THEN (Key("ion", "dens") :> ion) @@ (Key("ion", "temps") :> ion)
                   @@ (Key("ion", "eint") :> PatternGrid(pattern, ion, ion))
              ELSE NoRecord) :
        n_placeholders \in 0..MaxLen, pattern \in GRID_PATTERNS, with_ion \in BOOLEAN }

FallbackFiles ==
    { File("fallback.ses", TRUE, TRUE, TRUE, <<[id |-> 7592, rec |-> r]>>) : r \in FallbackRecords }

InitFallback == InitAnalyzer /\ disk \in FallbackFiles /\ params = DefaultParams /\ env = FullEnv

NextFallback == LoadSesameFile \/ PlotInternalEnergy \/ PlotPressure \/ PlotGrid

SpecFallback == InitFallback /\ [][NextFallback]_vars

\* the last operation was a scan or a grid plot that read the arrays of a type
ClaimArraysRead ==
    \/ ScanRan
    \/ result.op = "plot_density_temperature_grid" /\ result.fig

\* C26: whenever the grid plot or one of the two scans has read the arrays
\* of a type, that type is a member of available_eos_types.
C26_ReadTypeIsUsable ==
    ClaimArraysRead => result.eos_type \in Range(available_eos_types)

(***************************************************************************)
(* The report of a loaded record.                                          *)
(***************************************************************************)
\* the scalars of the loaded record are numbers, 'N/A' or absent: the
\* formatting of the material section accepts them
ClaimScalarsPrintable ==
    \A k \in {"abar", "zmax", "rho0"} : ~FormatRaises(Get(eos_data, k, NA))

\* C27: generate_report returns its text without raising for every loaded
\* record whose scalars can be printed, a record with no usable type and a
\* positive abar included, and returns 'No data loaded' when nothing is loaded.
C27_ReportAlwaysReturns ==
    result.op = "generate_report" =>
        IF data_loaded
        THEN ClaimScalarsPrintable => result.status = "returned"
        ELSE result.status = "returned" /\ result.text = "No data loaded"

(***************************************************************************)
(* get_suggested_parameters, applied to what get_material_info returns.    *)
(* Strings with commas are kept as the lists their split(',') gives.       *)
(***************************************************************************)
\* the material ids the files carry: opacplot2 keys its tables by int
MATERIAL_IDS == {7592, 7, 1, 0, -1}

\* str(material_id) of an int
StrOfInt(n) ==
    CASE n = 7592 -> "7592" [] n = 7 -> "7" [] n = 1 -> "1"
      [] n = 0 -> "0" [] n = -1 -> "-1"

\* float(material_info['zmax']) raises ValueError or TypeError
FloatRaises(x) == x.tag \in {"None", "text"}

\* float(zmax) < bound, for a zmax float() accepts
FloatBelow(x, bound) == x.n < bound * x.d

\* the suggestions with the defaults for organic materials
Suggestions(info, Znum, Xfracs) ==
    [Znum |-> Znum, Xfracs |-> Xfracs,
     tabnum |-> IF info.known THEN StrOfInt(info.material_id) ELSE "",
     Tmin |-> "",
     outname |-> <<"material_", IF info.known THEN StrOfInt(info.material_id)
                                ELSE "converted">>]

\* get_suggested_parameters with the hydrogen branch setting Znum only
SuggestZnumOnly(info) ==
    IF info.known /\ info.zmax # NA /\ ~FloatRaises(info.zmax) /\ FloatBelow(info.zmax, 2)
    THEN Suggestions(info, <<"1">>, <<"0.5", "0.5">>)
    ELSE Suggestions(info, <<"1", "6">>, <<"0.5", "0.5">>)

\* get_suggested_parameters(material_info)
get_suggested_parameters(info) ==
    IF ~info.known \/ info.zmax = NA \/ FloatRaises(info.zmax)
    THEN Suggestions(info, <<"1", "6">>, <<"0.5", "0.5">>)
    ELSE IF FloatBelow(info.zmax, 2) THEN Suggestions(info, <<"1">>, <<"1.0">>)
    ELSE IF FloatBelow(info.zmax, 4) THEN Suggestions(info, <<"1", "6">>, <<"0.5", "0.5">>)
    ELSE IF FloatBelow(info.zmax, 10) THEN Suggestions(info, <<"6">>, <<"1.0">>)
    ELSE Suggestions(info, <<"1", "6">>, <<"0.5", "0.5">>)

GetSuggestedParameters ==
    /\ result' = [op |-> "get_suggested_parameters",
                  suggestions |-> get_suggested_parameters(
                      get_material_info(data_loaded, eos_data,
                                        available_eos_types, material_id))]
    /\ AnalysisLeaves /\ UNCHANGED <<disk, params, gui>>

\* zmax as a file may store it: below, at and above each threshold, zero,
\* negative, 'N/A', None, a string
ZMAX_VALUES ==
    {Num(1, 1), Num(199, 100), Num(2, 1), Num(7, 2), Num(4, 1), Num(6, 1),
     Num(10, 1), Num(92, 1), Num(0, 1), Num(-1, 1), NA, PyNone, Text}

SuggestRecords == { Field("zmax", zmax) : zmax \in Options(ZMAX_VALUES) }

SuggestFiles ==
    { File("suggest.ses", TRUE, TRUE, TRUE, <<[id |-> id, rec |-> r]>>) :
        id \in MATERIAL_IDS, r \in SuggestRecords }

InitSuggest == InitAnalyzer /\ disk \in SuggestFiles /\ params = DefaultParams /\ env = FullEnv

NextSuggest == LoadSesameFile \/ GetSuggestedParameters

SpecSuggest == InitSuggest /\ [][NextSuggest]_vars

\* sum(float(x) for x in Xfracs) == 1
ClaimSumsToOne(xfracs) ==
    /\ \A i \in 1..Len(xfracs) : FloatParses(xfracs[i])
    /\ FloatSum([i \in 1..Len(xfracs) |-> FloatOf(xfracs[i])]) = [nan |-> FALSE, v |-> 10000000]

\* C28: whatever get_material_info returned, the suggestions of
\* get_suggested_parameters pass validate_parameters with no error, Znum and
\* Xfracs have the same number of items, and the fractions sum to 1.
C28_SuggestionsAreValid ==
    result.op = "get_suggested_parameters" =>
        /\ validate_parameters(result.suggestions) = <<>>
        /\ Len(result.suggestions.Znum) = Len(result.suggestions.Xfracs)
        /\ ClaimSumsToOne(result.suggestions.Xfracs)

\* suggestions made for a loaded hydrogen-like material: one element
C28_Witness ==
    /\ result.op = "get_suggested_parameters"
    /\ data_loaded /\ Has(eos_data, "zmax") /\ eos_data["zmax"] = Num(199, 100)
    /\ result.suggestions.Znum = <<"1">>
    /\ result.suggestions.tabnum = "7592"

(***************************************************************************)
(* The density and temperature tables of the grid tab.                     *)
(***************************************************************************)
\* dens > 1e-10 for an ion density (n / d) * 10^e; ten or more decimal
\* orders decide the comparison whatever n and d are
IonAboveThreshold(x) ==
    LET k == x.e + 10
    IN  IF x.n <= 0 THEN FALSE
        ELSE IF k >= 10 THEN TRUE
        ELSE IF k <= -10 THEN FALSE
        ELSE IF k >= 0 THEN x.n * Pow10(k) > x.d
        ELSE x.n > x.d * Pow10(-k)

\* enumerate(array): the indices i, from 0, of the entries kept by mask
ShownIndices(mask) == Compress([i \in 1..Len(mask) |-> i - 1], mask)

\* update_density_display()
update_density_display(d) ==
    IF ~d.has_current THEN d
    ELSE IF d.density_type_var = "mass"
    THEN [d EXCEPT !.density_data_text =
            TableText("Mass Density",
                      ShownIndices([i \in 1..Len(d.current_densities) |->
                                       d.current_densities[i] > PLACEHOLDER_MAX]))]
    ELSE [d EXCEPT !.density_data_text =
            TableText("Ion Density",
                      ShownIndices([i \in 1..Len(d.current_ion_densities) |->
                                       IonAboveThreshold(d.current_ion_densities[i])]))]

\* update_temperature_display()
update_temperature_display(d) ==
    IF ~d.has_current THEN d
    ELSE [d EXCEPT !.temp_data_text =
            TableText("Temperature", ShownIndices(ValidMask(d.current_temperatures)))]

\* update_data_displays(eos_type)
update_data_displays(d, loaded, rec, eos_type) ==
    IF ~loaded THEN d
    ELSE IF ~Has(rec, Key(eos_type, "dens")) \/ ~Has(rec, Key(eos_type, "temps")) THEN d
    ELSE update_temperature_display(update_density_display(
            [d EXCEPT !.has_current = TRUE,
                      !.current_densities = rec[Key(eos_type, "dens")],
                      !.current_temperatures = rec[Key(eos_type, "temps")],
                      !.current_ion_densities =
                          calculate_ion_densities(loaded, rec, rec[Key(eos_type, "dens")]).value]))

\* SESAMEAnalysisGUI.plot_dt_grid; eos_type is the value of the type combobox
PlotDtGrid ==
    /\ IF ~data_loaded
       THEN /\ result' = [op |-> "plot_dt_grid", outcome |-> "warning"]
            /\ UNCHANGED data_display
       ELSE \E eos_type \in REQUEST_TYPES :
              LET r == plot_density_temperature_grid(data_loaded, eos_data,
                                                     available_eos_types, eos_type)
              IN  IF ~r.fig
                  THEN /\ result' = [op |-> "plot_dt_grid", outcome |-> "error"]
                       /\ UNCHANGED data_display
                  ELSE /\ result' = [op |-> "plot_dt_grid", outcome |-> "displayed"]
                       /\ data_display' = update_data_displays(data_display, data_loaded,
                                                               eos_data, eos_type)
    /\ AnalysisLeaves
    /\ UNCHANGED <<disk, params, window, seen, min_temp_label, launch, threads>>

\* a radio button of the density table is clicked: density_type_var is set
\* and update_density_display runs
SelectDensityType ==
    /\ \E density_type \in {"mass", "ion"} :
          data_display' = update_density_display(
                              [data_display EXCEPT !.density_type_var = density_type])
    /\ result' = [op |-> "update_density_display"]
    /\ AnalysisLeaves
    /\ UNCHANGED <<disk, params, window, seen, min_temp_label, launch, threads>>

\* the values of abar the displayed files hold
DISPLAY_ABAR == {Num(651, 100), PyNone}

\* files with one type, `total`: MaxLen densities, each valid or a
\* placeholder (0 or exactly 1e-10), and MaxLen temperatures
DisplayRecords ==
    { (Key("total", "dens") :> MaskedArray(mask))
      @@ (Key("total", "temps") :> PaddedArray(MaxLen, 1))
      @@ Field("abar", abar) :
        mask \in [1..MaxLen -> BOOLEAN], abar \in Options(DISPLAY_ABAR) }

DisplayFiles ==
    { File("display.ses", TRUE, TRUE, TRUE, <<[id |-> 7592, rec |-> r]>>) : r \in DisplayRecords }

InitDisplay == InitAnalyzer /\ disk \in DisplayFiles /\ params = DefaultParams /\ env = FullEnv

NextDisplay == LoadSesameFile \/ PlotDtGrid \/ SelectDensityType

SpecDisplay == InitDisplay /\ [][NextDisplay]_vars

\* C29: once the tables are filled, the density table lists exactly the
\* indices whose mass density is greater than 1e-10, in 'Mass Density' mode
\* and in 'Ion Density' mode alike.
C29_SameIndicesInBothModes ==
    data_display.has_current =>
        data_display.density_data_text.rows =
            ShownIndices(ValidMask(data_display.current_densities))

(***************************************************************************)
(* The triple convert_file returns, with and without an output name, with  *)
(* each of opacplot2 and hedp imported or not.                             *)
(***************************************************************************)
OUTPUT_ENVIRONMENTS ==
    [opacplot2_available : BOOLEAN, hedp_available : BOOLEAN, output_dir_exists : BOOLEAN]

\* the form with the output name left out, left empty and filled in, and a
\* form that fails validation
OUTPUT_FORMS ==
    { DefaultParams,
      DefaultParams @@ ("outname" :> ""),
      DefaultParams @@ ("outname" :> "run1"),
      [Znum |-> <<"0">>, Xfracs |-> <<"1.0">>, tabnum |-> "", Tmin |-> "",
       outname |-> "run1"] }

OUTPUT_INPUTS ==
    { File("missing.ses", FALSE, FALSE, FALSE, <<>>),
      File("single.ses", TRUE, FALSE, TRUE, <<[id |-> 7592, rec |-> [k \in {"abar"} |-> Num(651, 100)]]>>),
      File("shot.v2.ses", TRUE, TRUE, TRUE, <<[id |-> 7592, rec |-> [k \in {"abar"} |-> Num(651, 100)]]>>) }

InitOutput ==
    /\ InitAnalyzer
    /\ disk \in OUTPUT_INPUTS
    /\ env \in OUTPUT_ENVIRONMENTS
    /\ params \in OUTPUT_FORMS

NextOutput == ConvertFile

SpecOutput == InitOutput /\ [][NextOutput]_vars

\* <output_dir>/<outname, or <input basename>_converted when outname is
\* empty>.cn4 for the call just made
ClaimOutputPath ==
    IF "outname" \in DOMAIN params /\ params["outname"] # ""
    THEN "output_dir/" \o params["outname"] \o ".cn4"
    ELSE "output_dir/" \o Basename(disk.name) \o "_converted.cn4"

\* C30: convert_file returns a triple; success is True only if the output
\* file <output_dir>/<outname or <input basename>_converted>.cn4 exists after
\* the write and the path returned is that path; with success False the path
\* is None; without opacplot2 the conversion is refused before any file is
\* read, and without hedp alone it is not refused.
C30_ResultTriple ==
    result.op = "convert_file" =>
        /\ result.status = "returned"
        /\ result.success =>
              /\ result.output_file = ClaimOutputPath
              /\ ClaimOutputPath \in outputs
        /\ ~result.success => result.output_file = NoOutput
        /\ ~env.opacplot2_available =>
              /\ ~result.success /\ calls = <<>>
              /\ result.message = "Conversion not possible"
        /\ env.opacplot2_available => result.message # "Conversion not possible"

\* a conversion without hedp succeeded and returned the path made of the
\* output name of the form
C30_Witness ==
    /\ result.op = "convert_file" /\ result.success
    /\ env.opacplot2_available /\ ~env.hedp_available
    /\ "outname" \in DOMAIN params /\ params["outname"] = "run1"
    /\ result.output_file = "output_dir/run1.cn4"

\* the same with the output name left empty: the path is made of the input's
\* basename
C30_WitnessBasename ==
    /\ result.op = "convert_file" /\ result.success
    /\ disk.name = "shot.v2.ses" /\ "outname" \notin DOMAIN params
    /\ result.output_file = "output_dir/shot.v2_converted.cn4"

====
